---- MODULE Spec2Model ----
(***************************************************************************)
(* A model of the query execution core of sqlite-mcp-server:               *)
(*   - the binary-JSON codec of jsonb_utils.py,                            *)
(*   - safe_execute_query of transaction_safety.py,                        *)
(*   - EnhancedSqliteDatabase._execute_query and the query tools of        *)
(*     handle_call_tool in server.py.                                      *)
(* SQL and JSON texts are token sequences, so that the prefix tests,       *)
(* substring tests and the textual replace of the code are computed on     *)
(* the text and not assumed.                                               *)
(***************************************************************************)
EXTENDS Integers, Sequences, FiniteSets, TLC

VARIABLES
    db,      \* the database file: what a new connection sees
    cfg,     \* JSONB_ENABLED and version_info['has_jsonb_support']
    pre,     \* the database file when the last operation began
    last,    \* the last operation: its inputs and what it returned
    cj,      \* codec: the text handed to the codec
    cenc,    \* codec: what convert_to_jsonb returned for cj
    cdec,    \* codec: what convert_from_jsonb returned for cenc
    cpc,     \* codec: "idle", "input", "encoded", "decoded"
    cerr,    \* classifier: the rules the error handed to it matches
    cdiag,   \* classifier: the diagnosis it returned
    insights, \* db.insights, the ledger
    notified, \* the notifications send_resource_updated delivered, in order
    memo,    \* what the last read of memo://insights returned
    pc,      \* "file" before EnhancedSqliteDatabase is constructed, then "ready"
    col,     \* declared type of memory_journal.metadata in the file
    mstate,  \* what _check_metadata_column found and did
    fl       \* the executor calls in flight, one per caller

vars == <<db, cfg, pre, last, cj, cenc, cdec, cpc, cerr, cdiag, insights, notified, memo,
          pc, col, mstate, fl>>
bootVars == <<pc, col, mstate>>
ledgerVars == <<insights, notified, memo>>
codecVars == <<cj, cenc, cdec, cpc>>
classVars == <<cerr, cdiag>>

\* ------------------------------------------------------------------ bounds

\* longest JSON text enumerated exhaustively over JAlpha
MaxJsonLen == 5
\* most rows memory_journal holds
MaxJournal == 1
\* rows of memory_journal in the runs that read it
MaxReadRows == 2
\* insights in the ledger
MaxInsights == 3
\* rows of the memory_journal found at startup
MaxStartRows == 2
\* callers that run an executor at the same time
MaxCallers == 2

\* ------------------------------------------------------------ JSON texts

\* A JSON text is a sequence of lexical tokens: punctuation, the strings
\* "a" and "b" (sa, sb), the number 1 and a whitespace character.
JStrings == {"sa", "sb"}
JTokens == {"{", "}", "[", "]", ",", ":", "1", " "} \cup JStrings
JAlpha == {"{", "}", "[", "]", ",", ":", "1", "sa"}

RECURSIVE SeqsUpTo(_, _)
SeqsUpTo(S, n) ==
    IF n = 0 THEN {<<>>}
    ELSE LET shorter == SeqsUpTo(S, n - 1)
         IN  shorter \cup {Append(s, x) : s \in {r \in shorter : Len(r) = n - 1}, x \in S}

\* texts that need more tokens than MaxJsonLen: whitespace, two keys in
\* both orders, a repeated key, nesting
ExtraTexts ==
    { <<" ", "[", " ", "1", " ", ",", "sa", "]", " ">>,
      <<"{", "sa", ":", "1", ",", "sb", ":", "sb", "}">>,
      <<"{", "sb", ":", "sb", ",", "sa", ":", "1", "}">>,
      <<"{", "sa", ":", "1", ",", "sa", ":", "sb", "}">>,
      <<"{", " ", "sa", " ", ":", "[", "{", "}", "]", "}">>,
      <<"{", "sa", ":", "1", ",", "}">>,
      <<"{", "sa", "1", "}">>,
      <<"[", "1", " ", "1", "]">> }

JsonTexts == SeqsUpTo(JAlpha, MaxJsonLen) \cup ExtraTexts

\* parse trees: t is "num", "str", "arr", "obj" or "pair"; a is the atom
\* (or the key of a pair); c the children, in text order
Node(t, a, c) == [t |-> t, a |-> a, c |-> c]
NullNode == Node("null", "", <<>>)
PFail == [ok |-> FALSE, node |-> NullNode, pos |-> 0]
POk(n, p) == [ok |-> TRUE, node |-> n, pos |-> p]

RECURSIVE SkipWs(_, _)
SkipWs(s, i) == IF i <= Len(s) /\ s[i] = " " THEN SkipWs(s, i + 1) ELSE i

RECURSIVE PValue(_, _), PElems(_, _, _), PMembers(_, _, _)
\* value := ws (number | string | array | object)
PValue(s, i) ==
    LET j == SkipWs(s, i) IN
    IF j > Len(s) THEN PFail
    ELSE IF s[j] = "1" THEN POk(Node("num", "1", <<>>), j + 1)
    ELSE IF s[j] \in JStrings THEN POk(Node("str", s[j], <<>>), j + 1)
    ELSE IF s[j] = "[" THEN
        LET k == SkipWs(s, j + 1) IN
        IF k <= Len(s) /\ s[k] = "]" THEN POk(Node("arr", "", <<>>), k + 1)
        ELSE PElems(s, j + 1, <<>>)
    ELSE IF s[j] = "{" THEN
        LET k == SkipWs(s, j + 1) IN
        IF k <= Len(s) /\ s[k] = "}" THEN POk(Node("obj", "", <<>>), k + 1)
        ELSE PMembers(s, j + 1, <<>>)
    ELSE PFail

\* elements := value ws ("," elements | "]")
PElems(s, i, acc) ==
    LET r == PValue(s, i) IN
    IF ~r.ok THEN PFail
    ELSE LET k == SkipWs(s, r.pos) IN
         IF k > Len(s) THEN PFail
         ELSE IF s[k] = "," THEN PElems(s, k + 1, Append(acc, r.node))
         ELSE IF s[k] = "]" THEN POk(Node("arr", "", Append(acc, r.node)), k + 1)
         ELSE PFail

\* members := ws string ws ":" value ws ("," members | "}")
PMembers(s, i, acc) ==
    LET j == SkipWs(s, i) IN
    IF j > Len(s) \/ s[j] \notin JStrings THEN PFail
    ELSE LET c == SkipWs(s, j + 1) IN
         IF c > Len(s) \/ s[c] # ":" THEN PFail
         ELSE LET r == PValue(s, c + 1) IN
              IF ~r.ok THEN PFail
              ELSE LET k == SkipWs(s, r.pos)
                       m == Append(acc, Node("pair", s[j], <<r.node>>))
                   IN  IF k > Len(s) THEN PFail
                       ELSE IF s[k] = "," THEN PMembers(s, k + 1, m)
                       ELSE IF s[k] = "}" THEN POk(Node("obj", "", m), k + 1)
                       ELSE PFail

\* the whole text is one value, whitespace around it allowed
ParseTree(s) ==
    LET r == PValue(s, 1) IN
    IF r.ok /\ SkipWs(s, r.pos) = Len(s) + 1 THEN r ELSE PFail

\* the value of a parse tree as json.loads builds it: an object is a dict,
\* so a repeated key keeps its last value and the key order is immaterial
KeyOrder == <<"sa", "sb">>

RECURSIVE Normalise(_)
Normalise(n) ==
    IF n.t = "arr" THEN Node("arr", "", [i \in 1..Len(n.c) |-> Normalise(n.c[i])])
    ELSE IF n.t = "obj" THEN
        LET LastOf(k) == CHOOSE i \in 1..Len(n.c) :
                            /\ n.c[i].a = k
                            /\ \A j \in (i + 1)..Len(n.c) : n.c[j].a # k
            Has(k) == \E i \in 1..Len(n.c) : n.c[i].a = k
            present == SelectSeq(KeyOrder, Has)
        IN  Node("obj", "", [i \in 1..Len(present) |->
                Node("pair", present[i], <<Normalise(n.c[LastOf(present[i])].c[1])>>)])
    ELSE n

\* json.loads(text): the parsed value, or JSONDecodeError
JsonLoads(s) ==
    LET r == ParseTree(s) IN
    IF r.ok THEN [ok |-> TRUE, val |-> Normalise(r.node)]
    ELSE [ok |-> FALSE, val |-> NullNode]

\* the minified text of a parse tree
RECURSIVE Render(_), RenderList(_, _)
Render(n) ==
    IF n.t = "arr" THEN <<"[">> \o RenderList(n.c, 1) \o <<"]">>
    ELSE IF n.t = "obj" THEN <<"{">> \o RenderList(n.c, 1) \o <<"}">>
    ELSE IF n.t = "pair" THEN <<n.a, ":">> \o Render(n.c[1])
    ELSE <<n.a>>
RenderList(c, i) ==
    IF i > Len(c) THEN <<>>
    ELSE Render(c[i]) \o (IF i < Len(c) THEN <<",">> \o RenderList(c, i + 1) ELSE <<>>)

\* ------------------------------------------------------- engine values

\* a value held in a column, bound to a placeholder or returned in a row
NullVal == [k |-> "null", s |-> <<>>, b |-> NullNode]
TextVal(s) == [k |-> "text", s |-> s, b |-> NullNode]
BlobVal(n) == [k |-> "blob", s |-> <<>>, b |-> n]

\* the engine's SQL function jsonb(x): NULL for NULL, the binary form of
\* the parse tree for a well-formed text, the error "malformed JSON" otherwise
SqlJsonb(x) ==
    IF x.k = "null" THEN [err |-> "none", val |-> NullVal]
    ELSE IF x.k = "text" /\ ParseTree(x.s).ok
        THEN [err |-> "none", val |-> BlobVal(ParseTree(x.s).node)]
    ELSE IF x.k = "blob" /\ x.b.t # "null" THEN [err |-> "none", val |-> x]
    ELSE [err |-> "malformed_json", val |-> NullVal]

\* the engine's SQL function json(x): the minified text of a binary or a
\* textual JSON value
SqlJson(x) ==
    IF x.k = "null" THEN [err |-> "none", val |-> NullVal]
    ELSE IF x.k = "blob" /\ x.b.t # "null"
        THEN [err |-> "none", val |-> TextVal(Render(x.b))]
    ELSE IF x.k = "text" /\ ParseTree(x.s).ok
        THEN [err |-> "none", val |-> TextVal(Render(ParseTree(x.s).node))]
    ELSE [err |-> "malformed_json", val |-> NullVal]

\* ------------------------------------------------------------- codec

\* validate_json(json_str): True when json.loads accepts the text, False on
\* JSONDecodeError and on TypeError (a value that is no text); never raises
validate_json(x) == x.k = "text" /\ JsonLoads(x.s).ok

\* what a codec call did: the value returned (NullVal is Python's None),
\* whether it raised, and the statements it sent to the engine
CodecRet(v, sent) == [val |-> v, raised |-> FALSE, sent |-> sent]

\* mutant: on an engine error the text is returned as it came
ConvertToJsonbKeepsInput(x) ==
    LET r == SqlJsonb(x) IN
    CodecRet(IF r.err = "none" THEN r.val ELSE x, <<"SELECT jsonb(?)">>)

\* convert_to_jsonb(conn, json_str): SELECT jsonb(?) with the text bound;
\* any exception is swallowed and None returned
convert_to_jsonb(x) ==
    LET r == SqlJsonb(x) IN
    CodecRet(IF r.err = "none" THEN r.val ELSE NullVal, <<"SELECT jsonb(?)">>)

\* mutant: the decoder sends the value through jsonb() again
ConvertFromJsonbReencodes(x) ==
    LET r == SqlJsonb(x) IN
    CodecRet(IF r.err = "none" THEN r.val ELSE NullVal, <<"SELECT jsonb(?)">>)

\* convert_from_jsonb(conn, jsonb_data): SELECT json(?) with the value
\* bound; any exception is swallowed and None returned
convert_from_jsonb(x) ==
    LET r == SqlJson(x) IN
    CodecRet(IF r.err = "none" THEN r.val ELSE NullVal, <<"SELECT json(?)">>)

NoCodec == CodecRet(NullVal, <<>>)

\* ------------------------------------------------------------ SQL texts

\* A statement text is a sequence of tokens; the token " " is a run of
\* whitespace, the other tokens are separated by single blanks.
StartsWith(s, p) == Len(s) >= Len(p) /\ SubSeq(s, 1, Len(p)) = p
Contains(s, p) == \E i \in 1..(Len(s) - Len(p) + 1) : SubSeq(s, i, i + Len(p) - 1) = p

\* str.replace(old, new): every occurrence, left to right
RECURSIVE Replace(_, _, _)
Replace(s, old, new) ==
    IF Len(s) < Len(old) THEN s
    ELSE IF SubSeq(s, 1, Len(old)) = old
        THEN new \o Replace(SubSeq(s, Len(old) + 1, Len(s)), old, new)
    ELSE <<s[1]>> \o Replace(Tail(s), old, new)

\* str.strip(): leading and trailing whitespace removed
RECURSIVE LStrip(_), RStrip(_)
LStrip(s) == IF Len(s) > 0 /\ s[1] = " " THEN LStrip(Tail(s)) ELSE s
RStrip(s) == IF Len(s) > 0 /\ s[Len(s)] = " " THEN RStrip(SubSeq(s, 1, Len(s) - 1)) ELSE s
Strip(s) == RStrip(LStrip(s))

\* str.upper(), token by token
UpperTok(x) ==
    CASE x = "select" -> "SELECT"
      [] x = "from" -> "FROM"
      [] x = "insert" -> "INSERT"
      [] x = "into" -> "INTO"
      [] x = "values" -> "VALUES"
      [] x = "t" -> "T"
      [] x = "name" -> "NAME"
      [] x = "id" -> "ID"
      [] x = "metadata" -> "METADATA"
      [] x = "memory_journal" -> "MEMORY_JOURNAL"
      [] x = "jsonb(" -> "JSONB("
      [] x = "(1,'a')" -> "(1,'A')"
      [] x = "(1,'b')" -> "(1,'B')"
      [] x = "(2,'b')" -> "(2,'B')"
      [] x = "'b'" -> "'B'"
      [] OTHER -> x
Upper(s) == [i \in 1..Len(s) |-> UpperTok(s[i])]

\* query.strip().upper().startswith(k) for one keyword, or for a tuple of them
StartsWithAny(q, kws) == \E k \in kws : StartsWith(Upper(Strip(q)), <<k>>)

\* --------------------------------------------------------- parameters

\* params of a call: None, a list (bound by position) or a dict (bound by
\* name; the only name used is metadata, with the other key id)
NoParams == [kind |-> "none", items |-> <<>>, keys |-> {}, meta |-> NullVal]
ListParams(items) == [kind |-> "list", items |-> items, keys |-> {}, meta |-> NullVal]
DictParams(keys, meta) == [kind |-> "dict", items |-> <<>>, keys |-> keys, meta |-> meta]

\* bool(x) of Python for a parameter collection and for a value
Truthy(p) ==
    \/ p.kind = "list" /\ p.items # <<>>
    \/ p.kind = "dict" /\ p.keys # {}
TruthyVal(v) == v.k = "blob" \/ (v.k = "text" /\ v.s # <<>>) \/ v.k = "json"

\* 'metadata' in params: a key of a dict, an element of a list
MetadataWord == TextVal(<<"metadata">>)
MetadataIn(p) ==
    \/ p.kind = "dict" /\ "metadata" \in p.keys
    \/ p.kind = "list" /\ \E i \in 1..Len(p.items) : p.items[i] = MetadataWord

\* ------------------------------------------------------------ database

Row(id, name, meta) == [id |-> id, name |-> name, meta |-> meta]
Table(e, r) == [exists |-> e, rows |-> r]
NoTable == Table(FALSE, {})
TableNames == {"t", "memory_journal"}

\* a database: its tables by name and whether the trigger
\* validate_memory_journal_metadata exists
Database(tab, trig) == [tab |-> tab, trig |-> trig]

RowLit(x) ==
    CASE x = "(1,'a')" -> Row(1, "a", NullVal)
      [] x = "(1,'b')" -> Row(1, "b", NullVal)
      [] x = "(2,'b')" -> Row(2, "b", NullVal)
      [] OTHER -> Row(0, "", NullVal)
RowLits == {"(1,'a')", "(1,'b')", "(2,'b')"}

Ids(rows) == {r.id : r \in rows}
MaxId(rows) == IF rows = {} THEN 0 ELSE CHOOSE i \in Ids(rows) : \A j \in Ids(rows) : j <= i

\* rows in rowid order
RECURSIVE ById(_)
ById(rows) ==
    IF rows = {} THEN <<>>
    ELSE LET m == CHOOSE r \in rows : \A o \in rows : r.id <= o.id
         IN  <<m>> \o ById(rows \ {m})

\* a connection of the sqlite3 module: the file, this connection's view of
\* it and whether a transaction is open
Conn(disk, work, intx) == [disk |-> disk, work |-> work, intx |-> intx]
Connect(d) == Conn(d, d, FALSE)
Commit(c) == Conn(c.work, c.work, FALSE)
Rollback(c) == Conn(c.disk, c.disk, FALSE)

\* -------------------------------------------------------------- engine

JsonVal(n) == [k |-> "json", s |-> <<>>, b |-> n]

\* the value expressions a memory_journal statement stores
Exprs == {<<"?">>, <<":", "metadata">>, <<"jsonb(", "?", ")">>}
MjInsertHead == <<"INSERT", "INTO", "memory_journal", "(", "metadata", ")", "VALUES", "(">>
MjUpdateHead == <<"UPDATE", "memory_journal", "SET", "metadata", "=">>
MjUpdateTail == <<"WHERE", "id", "=", "1">>
\* an INSERT behind a common table expression: it adds the row (2,'b')
WithInsert ==
    <<"WITH", "x(i,n)", "AS", "(SELECT 2,'b')", "INSERT", "INTO", "t", "SELECT", "i,n", "FROM", "x">>

\* the statement the engine's parser recognises in a stripped text
\* (keywords in either case), "syntax" when it recognises none
Form(n) ==
    LET u == Upper(n) IN
    IF Len(n) = 4 /\ SubSeq(u, 1, 3) = <<"SELECT", "*", "FROM">> /\ n[4] \in TableNames
        THEN "select"
    ELSE IF u = <<"BEGIN", "TRANSACTION">> THEN "begin"
    ELSE IF Len(n) = 5 /\ SubSeq(u, 1, 2) = <<"INSERT", "INTO">> /\ n[3] = "t"
            /\ u[4] = "VALUES" /\ n[5] \in RowLits
        THEN "insert"
    ELSE IF Len(n) = 8 /\ SubSeq(u, 1, 4) = <<"INSERT", "OR", "FAIL", "INTO">> /\ n[5] = "t"
            /\ u[6] = "VALUES" /\ n[7] \in RowLits /\ n[8] \in RowLits
        THEN "insert_or_fail"
    ELSE IF Len(n) = 5 /\ SubSeq(u, 1, 2) = <<"REPLACE", "INTO">> /\ n[3] = "t"
            /\ u[4] = "VALUES" /\ n[5] \in RowLits
        THEN "replace"
    ELSE IF n = <<"UPDATE", "t", "SET", "name", "=", "'b'">> THEN "update"
    ELSE IF n = <<"DELETE", "FROM", "t">> THEN "delete"
    ELSE IF n = WithInsert THEN "with_insert"
    ELSE IF Len(n) = 3 /\ SubSeq(n, 1, 2) = <<"CREATE", "TABLE">> /\ n[3] \in TableNames
        THEN "create"
    ELSE IF Len(n) = 3 /\ SubSeq(n, 1, 2) = <<"DROP", "TABLE">> /\ n[3] \in TableNames
        THEN "drop"
    ELSE IF \E e \in Exprs : n = MjInsertHead \o e \o <<")">> THEN "mj_insert"
    ELSE IF \E e \in Exprs : n = MjUpdateHead \o e \o MjUpdateTail THEN "mj_update"
    ELSE "syntax"

\* the table a recognised statement works on
TargetOf(n, form) ==
    CASE form = "select" -> n[4]
      [] form \in {"create", "drop"} -> n[3]
      [] form \in {"mj_insert", "mj_update"} -> "memory_journal"
      [] OTHER -> "t"

ExprOf(n, form) ==
    IF form = "mj_insert" THEN SubSeq(n, 9, Len(n) - 1)
    ELSE IF form = "mj_update" THEN SubSeq(n, 6, Len(n) - 4)
    ELSE <<>>

\* binding the parameters to the placeholders of the statement, as the
\* sqlite3 module does it: without parameters the statement must have no
\* placeholder; a list must have one item per placeholder; a dict binds by
\* name, so a "?" placeholder cannot be bound from it
BindingFails(expr, p) ==
    LET qmarks == IF Contains(expr, <<"?">>) THEN 1 ELSE 0
        named == IF Contains(expr, <<":">>) THEN 1 ELSE 0
    IN  CASE p.kind = "none" -> qmarks + named > 0
          [] p.kind = "list" -> Len(p.items) # qmarks + named
          [] OTHER -> qmarks > 0 \/ (named > 0 /\ "metadata" \notin p.keys)
Bound(p) == IF p.kind = "list" THEN p.items[1] ELSE p.meta

ExecRes(c, err, rows, n) == [conn |-> c, err |-> err, rows |-> rows, rowcount |-> n]

\* the connection after a statement changed table tb to rows r (DML opens
\* the implicit transaction of the sqlite3 module when none is open)
WithRows(c, tb, r) ==
    Conn(c.disk, [c.work EXCEPT !.tab[tb] = Table(TRUE, r)], TRUE)
\* a schema change outside a transaction is committed by the engine at once
WithTable(c, tb, tbl) ==
    LET w == [c.work EXCEPT !.tab[tb] = tbl,
                            !.trig = IF tb = "memory_journal" /\ ~tbl.exists
                                     THEN FALSE ELSE c.work.trig]
    IN  IF c.intx THEN Conn(c.disk, w, TRUE) ELSE Conn(w, w, FALSE)

Failed(c, e) == ExecRes(c, e, <<>>, -1)
\* a failed DML statement leaves the implicit transaction open
FailedInTx(c, e) == ExecRes(Conn(c.disk, c.work, TRUE), e, <<>>, -1)

\* INSERT INTO t VALUES r
RunInsert(c, rows, r) ==
    IF r.id \in Ids(rows) THEN FailedInTx(c, "constraint")
    ELSE ExecRes(WithRows(c, "t", rows \cup {r}), "none", <<>>, 1)

\* INSERT OR FAIL INTO t VALUES r1, r2: OR FAIL keeps the rows the
\* statement inserted before the conflict
RunInsertOrFail(c, rows, r1, r2) ==
    IF r1.id \in Ids(rows) THEN FailedInTx(c, "constraint")
    ELSE IF r2.id \in Ids(rows) \cup {r1.id}
        THEN ExecRes(WithRows(c, "t", rows \cup {r1}), "constraint", <<>>, -1)
    ELSE ExecRes(WithRows(c, "t", rows \cup {r1, r2}), "none", <<>>, 2)

\* REPLACE INTO t VALUES r
RunReplace(c, rows, r) ==
    ExecRes(WithRows(c, "t", {o \in rows : o.id # r.id} \cup {r}), "none", <<>>, 1)

\* the connection after a row-changing statement that the sqlite3 module
\* does not take for DML, its text starting with neither INSERT, UPDATE,
\* DELETE nor REPLACE: the module opens no transaction before it, so
\* outside a transaction the engine commits its change at once
WithRowsAutocommit(c, tb, r) ==
    IF c.intx THEN WithRows(c, tb, r)
    ELSE Conn([c.work EXCEPT !.tab[tb] = Table(TRUE, r)],
              [c.work EXCEPT !.tab[tb] = Table(TRUE, r)], FALSE)

\* WITH x(i,n) AS (SELECT ...) INSERT INTO t SELECT i,n FROM x, adding r
RunWithInsert(c, rows, r) ==
    IF r.id \in Ids(rows) THEN Failed(c, "constraint")
    ELSE ExecRes(WithRowsAutocommit(c, "t", rows \cup {r}), "none", <<>>, -1)

\* a memory_journal statement storing the value of its expression, ev;
\* an INSERT fires the trigger validate_memory_journal_metadata
RunJournal(c, rows, form, ev) ==
    IF ev.err # "none" THEN FailedInTx(c, ev.err)
    ELSE IF form = "mj_insert" THEN
        IF c.work.trig /\ ev.val.k # "null" /\ SqlJson(ev.val).err # "none"
            THEN FailedInTx(c, "malformed_json")
        ELSE ExecRes(WithRows(c, "memory_journal",
                              rows \cup {Row(MaxId(rows) + 1, "", ev.val)}),
                     "none", <<>>, 1)
    ELSE ExecRes(WithRows(c, "memory_journal",
                          {IF o.id = 1 THEN Row(1, o.name, ev.val) ELSE o : o \in rows}),
                 "none", <<>>, Cardinality({o \in rows : o.id = 1}))

\* the value of a memory_journal statement's expression
EvalExpr(expr, b) ==
    IF Contains(expr, <<"jsonb(">>) THEN SqlJsonb(b) ELSE [err |-> "none", val |-> b]

\* mutant: reading a table consumes its rows, committed at once
RunSelectConsuming(c, tb, rows) ==
    ExecRes(Conn([c.disk EXCEPT !.tab[tb] = Table(TRUE, {})],
                 [c.work EXCEPT !.tab[tb] = Table(TRUE, {})], c.intx),
            "none", ById(rows), -1)

\* SELECT * FROM tb: the rows, nothing written
RunSelect(c, tb, rows) == ExecRes(c, "none", ById(rows), -1)

\* a prepared and bound statement of form `form` on table tb (rows its rows)
RunStatement(c, n, form, tb, rows, expr, p) ==
    CASE form = "drop" -> ExecRes(WithTable(c, tb, NoTable), "none", <<>>, -1)
      [] form = "select" -> RunSelect(c, tb, rows)
      [] form = "insert" -> RunInsert(c, rows, RowLit(n[5]))
      [] form = "insert_or_fail" -> RunInsertOrFail(c, rows, RowLit(n[7]), RowLit(n[8]))
      [] form = "replace" -> RunReplace(c, rows, RowLit(n[5]))
      [] form = "with_insert" -> RunWithInsert(c, rows, RowLit("(2,'b')"))
      [] form = "update" ->
            ExecRes(WithRows(c, tb, {Row(o.id, "b", o.meta) : o \in rows}), "none", <<>>,
                    Cardinality(rows))
      [] form = "delete" -> ExecRes(WithRows(c, tb, {}), "none", <<>>, Cardinality(rows))
      [] OTHER -> RunJournal(c, rows, form, EvalExpr(expr, Bound(p)))

\* Errors of preparing the statement come first, then those of binding,
\* then those of running it.
PrepareAndRun(c, n, form, tb, expr, p, has) ==
    IF form = "syntax" THEN Failed(c, "syntax")
    ELSE IF form = "begin" THEN ExecRes(Conn(c.disk, c.work, TRUE), "none", <<>>, -1)
    ELSE IF form = "create" /\ c.work.tab[tb].exists THEN Failed(c, "table_exists")
    ELSE IF form # "create" /\ ~c.work.tab[tb].exists THEN Failed(c, "no_such_table")
    ELSE IF Contains(expr, <<"jsonb(">>) /\ ~has THEN Failed(c, "no_such_function")
    ELSE IF BindingFails(expr, p) THEN Failed(c, "binding")
    ELSE IF form = "create" THEN ExecRes(WithTable(c, tb, Table(TRUE, {})), "none", <<>>, -1)
    ELSE RunStatement(c, n, form, tb, c.work.tab[tb].rows, expr, p)

Recognised(c, n, form, p, has) ==
    PrepareAndRun(c, n, form, TargetOf(n, form), ExprOf(n, form), p, has)

\* cursor.execute(q, p) on connection c; has says whether the engine has
\* the jsonb() function
EngineExecute(c, q, p, has) == Recognised(c, Strip(q), Form(Strip(q)), p, has)

\* what the surroundings do to a call: busy, another connection holds the
\* write lock of the file until the engine's busy timeout has passed;
\* rbfails, conn.rollback() raises
Env(busy, rbfails) == [busy |-> busy, rbfails |-> rbfails]
Calm == Env(FALSE, FALSE)
Envs == {Env(b, f) : b \in BOOLEAN, f \in BOOLEAN}

\* errors found when the statement is prepared or bound, before the
\* engine asks for a lock
PrepareErrors == {"syntax", "table_exists", "no_such_table", "no_such_function", "binding"}

\* a statement that gets as far as writing needs the write lock
NeedsWriteLock(form, err) ==
    form \notin {"select", "begin", "syntax"} /\ err \notin PrepareErrors

\* cursor.execute(q, p) in surroundings env: "database is locked" for a
\* statement that needs the write lock while the file is busy
EngineExecuteIn(c, q, p, has, env) ==
    IF env.busy /\ NeedsWriteLock(Form(Strip(q)), EngineExecute(c, q, p, has).err)
    THEN Failed(c, "locked")
    ELSE EngineExecute(c, q, p, has)

\* ------------------------------------------------------ error classifier

\* the categories, and the pattern rules in the order they are tried
Categories ==
    {"InvalidJson", "JsonPathInvalid", "JsonTypeMismatch", "ConstraintViolation",
     "SyntaxError", "Locked", "Unclassified"}
RuleOrder ==
    <<"InvalidJson", "JsonPathInvalid", "JsonTypeMismatch", "ConstraintViolation",
      "SyntaxError", "Locked">>
Rules == {RuleOrder[i] : i \in 1..Len(RuleOrder)}

\* mutant: the last rule that matches decides
ClassifyLastMatch(matched) ==
    IF matched = {} THEN "Unclassified"
    ELSE RuleOrder[CHOOSE i \in 1..Len(RuleOrder) :
                     /\ RuleOrder[i] \in matched
                     /\ \A j \in (i + 1)..Len(RuleOrder) : RuleOrder[j] \notin matched]

\* the category of an error whose message and statement match the rules
\* `matched`: the first rule in the order decides, no rule is unclassified
Classify(matched) ==
    IF matched = {} THEN "Unclassified"
    ELSE RuleOrder[CHOOSE i \in 1..Len(RuleOrder) :
                     /\ RuleOrder[i] \in matched
                     /\ \A j \in 1..(i - 1) : RuleOrder[j] \notin matched]

\* the rules the message of an engine error matches
Patterns(err) ==
    IF err = "malformed_json" THEN {"InvalidJson"}
    ELSE IF err = "json_path" THEN {"JsonPathInvalid"}
    ELSE IF err = "json_type" THEN {"JsonTypeMismatch"}
    ELSE IF err = "constraint" THEN {"ConstraintViolation"}
    ELSE IF err = "syntax" THEN {"SyntaxError"}
    ELSE IF err = "locked" THEN {"Locked"}
    ELSE {}

Category(err) == Classify(Patterns(err))

JsonCategories == {"InvalidJson", "JsonPathInvalid", "JsonTypeMismatch"}

\* mutant: only malformed JSON is flagged
IsJsonRelatedOnlyMalformed(cat) == cat = "InvalidJson"

IsJsonRelated(cat) == cat \in JsonCategories

\* the remediation suggestions of a category
Suggestions(cat) ==
    IF cat = "InvalidJson" THEN <<"validate JSON before insertion">>
    ELSE IF cat = "JsonPathInvalid" THEN <<"check the JSON path expression">>
    ELSE IF cat = "JsonTypeMismatch" THEN <<"check the stored value is JSON">>
    ELSE <<>>

\* the diagnosis of a category
Diagnose(cat) ==
    [category |-> cat,
     is_json_related |-> IsJsonRelated(cat),
     suggestions |-> Suggestions(cat)]

\* SqliteErrorHandler.analyze_sqlite_error(e, query, params)
analyze_sqlite_error(err) == Diagnose(Category(err))

\* ---------------------------------------------------------- exceptions

\* the class of the sqlite3 exception an engine error is raised as
ExcType(err) ==
    IF err = "constraint" THEN "IntegrityError"
    ELSE IF err = "binding" THEN "ProgrammingError"
    ELSE "OperationalError"

\* an exception: its class, the engine error it is the original of ("" for
\* an exception built by the executor), and what the executor put into the
\* message of one it built
Exc(etype, orig, enriched, suggestion) ==
    [etype |-> etype, orig |-> orig, enriched |-> enriched, suggestion |-> suggestion]
NoExc == Exc("", "", FALSE, "")
OriginalError(err) == Exc(ExcType(err), err, FALSE, "")

\* ------------------------------------------------------------- results

Result(kind, n, rows) == [kind |-> kind, n |-> n, rows |-> rows]
NoResult == Result("none", 0, <<>>)
\* [{"affected_rows": n}]
Affected(n) == Result("affected", n, <<>>)
\* [dict(row) for row in cursor.fetchall()]
RowsResult(rows) == Result("rows", Len(rows), rows)

\* what a call of an executor did: the file it left, whether it returned
\* or raised, its result or exception, the text and parameters it handed
\* to cursor.execute and the calls it made on the connection, in order
Outcome(d, status, result, exc, sentq, sentp, events) ==
    [db |-> d, status |-> status, result |-> result, exc |-> exc,
     sentq |-> sentq, sentp |-> sentp, events |-> events]

\* if params: cursor.execute(query, params) else: cursor.execute(query)
Effective(params) == IF Truthy(params) THEN params ELSE NoParams

\* ------------------------------------------------ transaction_safety.py

\* is_read_query = query.strip().upper().startswith("SELECT")
is_read_query(q) == StartsWithAny(q, {"SELECT"})

\* mutant: the error handler commits what the failed statement left
SafeOnErrorCommits(c, isread) == IF ~isread THEN Commit(c) ELSE c

\* the except block: roll back unless the statement is a read
SafeOnError(c, isread) == IF ~isread THEN Rollback(c) ELSE c

\* mutant: the write branch returns without committing
SafeOnSuccessForgets(c, isread) == c

\* the success branch: commit unless the statement is a read
SafeOnSuccess(c, isread) == IF ~isread THEN Commit(c) ELSE c

\* mutant: BEGIN TRANSACTION is sent for every statement
SafeEventsBeginAlways(isread) == <<"connect", "begin", "execute">>

\* the calls made on the connection up to the statement
SafeEvents(isread) ==
    <<"connect">> \o (IF isread THEN <<>> ELSE <<"begin">>) \o <<"execute">>

\* mutant: the exception of a failed rollback is the one raised
SafeRaisedRollbackError(err, isread, rbfails) ==
    IF ~isread /\ rbfails THEN Exc("OperationalError", "rollback", FALSE, "")
    ELSE OriginalError(err)

\* the exception the except block raises: an exception of conn.rollback()
\* is logged, and the bare raise re-raises the statement's error
SafeRaised(err, isread, rbfails) == OriginalError(err)

\* the file after the except block and the close of the connection: a
\* transaction the rollback left open is discarded by the close
SafeAfterError(c, isread, rbfails) ==
    IF rbfails THEN c.disk ELSE SafeOnError(c, isread).disk

\* what follows cursor.execute(query, params), r being what it did
SafeFinish(isread, r, q, p, env) ==
    IF r.err = "none"
    THEN Outcome(SafeOnSuccess(r.conn, isread).disk, "ok",
                 IF isread THEN RowsResult(r.rows) ELSE Affected(r.rowcount),
                 NoExc, q, p,
                 SafeEvents(isread) \o (IF isread THEN <<>> ELSE <<"commit">>) \o <<"close">>)
    ELSE Outcome(SafeAfterError(r.conn, isread, env.rbfails), "raise", NoResult,
                 SafeRaised(r.err, isread, env.rbfails), q, p,
                 SafeEvents(isread) \o (IF isread THEN <<>> ELSE <<"rollback">>) \o <<"close">>)

\* the connection the statement runs on: a new one, after BEGIN
\* TRANSACTION unless the statement is a read
SafeBegin(d, isread, has) ==
    IF isread THEN Connect(d)
    ELSE EngineExecute(Connect(d), <<"BEGIN", "TRANSACTION">>, NoParams, has).conn

\* safe_execute_query(db_path, query, params) on file d
safe_execute_query(d, q, params, has, env) ==
    SafeFinish(is_read_query(q),
               EngineExecuteIn(SafeBegin(d, is_read_query(q), has), q, Effective(params),
                               has, env),
               q, Effective(params), env)

\* ------------------------------------------------------------ server.py

\* the first test of the special handling: support enabled and present,
\* an INSERT or UPDATE whose text names memory_journal and metadata
TargetsMetadata(q, c) ==
    /\ c.enabled /\ c.has
    /\ StartsWithAny(q, {"INSERT", "UPDATE"})
    /\ Contains(q, <<"memory_journal">>)
    /\ Contains(q, <<"metadata">>)

\* the second test: a known statement with a metadata parameter.  With a
\* list, params['metadata'] raises TypeError, which the enclosing handler
\* logs, and the text stays as it is.
HasMetadataParam(q, params) ==
    /\ \/ Contains(q, <<"INSERT", "INTO", "memory_journal">>)
       \/ Contains(q, <<"UPDATE", "memory_journal", "SET">>)
    /\ Truthy(params)
    /\ MetadataIn(params)
    /\ params.kind = "dict"
    /\ TruthyVal(params.meta)

\* mutant: the value is written into the text as a literal
RewriteInlinesValue(q) ==
    Replace(q, <<"metadata", "=", "?">>, <<"metadata", "=", "'{ }'">>)

\* query.replace('metadata = ?', 'metadata = jsonb(?)') unless the text
\* already holds jsonb(?)
RewritePlaceholder(q) ==
    IF ~Contains(q, <<"jsonb(", "?", ")">>)
    THEN Replace(q, <<"metadata", "=", "?">>, <<"metadata", "=", "jsonb(", "?", ")">>)
    ELSE q

\* The text handed to the engine.  validate_json(params['metadata']) is
\* called for its exceptions only: it returns False for a text that is no
\* JSON and raises nothing, so the rewrite follows for every non-empty value.
StatementSent(q, params, c) ==
    IF TargetsMetadata(q, c) /\ HasMetadataParam(q, params)
    THEN RewritePlaceholder(q)
    ELSE q

\* the statement prefixes after which _execute_query commits
CommitPrefixes == {"INSERT", "UPDATE", "DELETE", "CREATE", "DROP", "ALTER"}

\* mutant: no statement is committed
IsCommittedNever(q) == FALSE

\* mutant: every statement that is not a SELECT is committed
IsCommittedUnlessSelect(q) == ~StartsWithAny(q, {"SELECT"})

IsCommitted(q) == StartsWithAny(q, CommitPrefixes)

\* the value a read returns for a binary value v it decoded: the text of
\* convert_from_jsonb parsed by json.loads, the raw value when there is none
Decoded(v, t) ==
    IF TruthyVal(t) /\ JsonLoads(t.s).ok THEN JsonVal(JsonLoads(t.s).val) ELSE v

\* mutant: the binary values of every column are decoded
DecodeValueAnyColumn(key, v) ==
    IF v.k = "blob" THEN Decoded(v, convert_from_jsonb(v).val) ELSE v

\* for key, value in row.items(): a bytes value under the key metadata is
\* decoded, every other value stays
DecodeValue(key, v) ==
    IF key = "metadata" /\ v.k = "blob" THEN Decoded(v, convert_from_jsonb(v).val) ELSE v

\* a row of a read, after the loop over the result set
DecodeRow(r, c) ==
    IF c.enabled /\ c.has
    THEN Row(r.id, DecodeValue("name", r.name), DecodeValue("metadata", r.meta))
    ELSE r

\* the exception of the except block for analysis a
RaisedExc(err, a) ==
    IF a.is_json_related
    THEN Exc(ExcType(err), "", TRUE,
             IF a.suggestions # <<>> THEN a.suggestions[1] ELSE "Check JSON syntax")
    ELSE OriginalError(err)

\* mutant: the exception leaves before the connection is closed
RaisedLeavesOpen(d, err, q, p, ev) ==
    Outcome(d, "raise", NoResult, RaisedExc(err, analyze_sqlite_error(err)), q, p,
            SubSeq(ev, 1, Len(ev) - 1))

\* mutant: the error is logged and an empty result returned
RaisedSwallowed(d, err, q, p, ev) ==
    Outcome(d, "ok", RowsResult(<<>>), NoExc, q, p, ev)

\* the except block of _execute_query: for a JSON related analysis a new
\* exception of the same class, its message built from the JSON error
\* details and the first suggestion; otherwise the original is re-raised
Raised(d, err, q, p, ev) ==
    Outcome(d, "raise", NoResult, RaisedExc(err, analyze_sqlite_error(err)), q, p, ev)

\* what follows cursor.execute(query, params), r being what it did
ExecuteFinish(r, q1, p, c) ==
    IF r.err = "none"
    THEN IF IsCommitted(q1)
         THEN Outcome(Commit(r.conn).disk, "ok", Affected(r.rowcount), NoExc,
                      q1, p, <<"connect", "execute", "commit", "close">>)
         ELSE Outcome(r.conn.disk, "ok",
                      RowsResult([i \in 1..Len(r.rows) |-> DecodeRow(r.rows[i], c)]),
                      NoExc, q1, p, <<"connect", "execute", "close">>)
    ELSE Raised(r.conn.disk, r.err, q1, p, <<"connect", "execute", "classify", "close">>)

\* mutant: a statement that found the file locked is submitted again
ExecuteSentRetries(d, q1, p, c, env) ==
    IF EngineExecuteIn(Connect(d), q1, p, c.has, env).err = "locked"
    THEN ExecuteFinish(EngineExecute(Connect(d), q1, p, c.has), q1, p, c)
    ELSE ExecuteFinish(EngineExecuteIn(Connect(d), q1, p, c.has, env), q1, p, c)

\* cursor.execute(query, params), once, and what follows it
ExecuteSent(d, q1, p, c, env) ==
    ExecuteFinish(EngineExecuteIn(Connect(d), q1, p, c.has, env), q1, p, c)

\* EnhancedSqliteDatabase._execute_query(query, params) on file d
execute_query(d, q, params, c, env) ==
    ExecuteSent(d, StatementSent(q, params, c), Effective(params), c, env)

\* ---------------------------------------------------- handle_call_tool

QueryTools == {"read_query", "write_query", "create_table"}

\* arguments of a tool call: None, a dict with the key query or a dict
\* with the key insight
NoArgs == [given |-> FALSE, query |-> <<>>, has_insight |-> FALSE, insight |-> ""]
Args(q) == [given |-> TRUE, query |-> q, has_insight |-> FALSE, insight |-> ""]
InsightArgs(x) == [given |-> TRUE, query |-> <<>>, has_insight |-> TRUE, insight |-> x]

\* mutant: write_query lets every statement through
RejectsNothing(name, q) == FALSE

\* the prefix test of each query tool
Rejects(name, q) ==
    CASE name = "read_query" -> ~StartsWithAny(q, {"SELECT"})
      [] name = "write_query" -> StartsWithAny(q, {"SELECT"})
      [] name = "create_table" -> ~StartsWith(Upper(Strip(q)), <<"CREATE", "TABLE">>)
      [] OTHER -> TRUE

\* what the caller of handle_call_tool gets: the text content returned
\* (kinds "results", "text", "db_error", "error") or the exception that
\* left the function (kind "raised", text its class)
Response(kind, text) == [kind |-> kind, text |-> text]

\* a line of the memo
Line(kind, text, n) == [kind |-> kind, text |-> text, n |-> n]
Bullets(led) == [i \in 1..Len(led) |-> Line("bullet", led[i], 0)]

\* mutant: the summary is written for every ledger that is not empty
SynthesizeAlwaysSummary(led) ==
    IF led = <<>>
    THEN <<Line("placeholder", "No business insights have been discovered yet.", 0)>>
    ELSE <<Line("header", "Business Intelligence Memo", 0),
           Line("header", "Key Insights Discovered:", 0)>>
         \o Bullets(led)
         \o <<Line("summary", "Summary:", 0),
              Line("summary", "key business insights", Len(led))>>

\* _synthesize_memo(): the memo, line by line
synthesize_memo(led) ==
    IF led = <<>>
    THEN <<Line("placeholder", "No business insights have been discovered yet.", 0)>>
    ELSE <<Line("header", "Business Intelligence Memo", 0),
           Line("header", "Key Insights Discovered:", 0)>>
         \o Bullets(led)
         \o (IF Len(led) > 1
             THEN <<Line("summary", "Summary:", 0),
                    Line("summary", "key business insights", Len(led))>>
             ELSE <<>>)

\* The statement "import sqlite3" of the vacuum_database branch makes the
\* name sqlite3 a local variable of handle_call_tool, bound only in a call
\* that ran that branch.
Sqlite3Bound(name) == name = "vacuum_database"

SqliteErrors == {"IntegrityError", "ProgrammingError", "OperationalError"}

\* The except clauses of handle_call_tool for an exception exc raised in
\* its try block, a being the analysis of exc.  Evaluating "except
\* sqlite3.Error" with sqlite3 unbound raises UnboundLocalError, which
\* leaves the function.
ExceptClauses(name, exc, a) ==
    IF ~Sqlite3Bound(name) THEN Response("raised", "UnboundLocalError")
    ELSE IF exc.etype \in SqliteErrors
        THEN Response("db_error",
                      IF a.is_json_related /\ a.suggestions # <<>>
                      THEN "Database error with suggestion"
                      ELSE "Database error")
    ELSE Response("error", "Error")

\* what a call of handle_call_tool did: the outcome of the executor call
\* it made, if any, the response, the ledger it left and the
\* notifications it delivered
ToolResult(o, resp, led, emitted) ==
    [out |-> o, resp |-> resp, ledger |-> led, emitted |-> emitted]

NoOutcome(d) == Outcome(d, "none", NoResult, NoExc, <<>>, NoParams, <<>>)

\* the response after the executor call with outcome o
ToolResponse(name, o, a) ==
    IF o.status = "raise" THEN ExceptClauses(name, o.exc, a)
    ELSE IF name = "create_table"
         THEN Response("text", "Table created successfully")
         ELSE Response("results", "str(results)")

Answered(o, name, led) ==
    ToolResult(o, ToolResponse(name, o, analyze_sqlite_error(o.exc.orig)), led, <<>>)

\* a ValueError raised before anything was done
Refused(d, name, led) ==
    ToolResult(NoOutcome(d),
               ExceptClauses(name, Exc("ValueError", "", FALSE, ""), Diagnose("Unclassified")),
               led, <<>>)

\* mutant: an insight already in the ledger is not added again
LedgerAppendOnce(led, x) ==
    IF \E i \in 1..Len(led) : led[i] = x THEN led ELSE Append(led, x)

\* db.insights.append(arguments["insight"])
LedgerAppend(led, x) == Append(led, x)

\* a delivered notification: the resource, and the memo a read of the
\* resource returns at the time it is delivered
Notification(led) == [uri |-> "memo://insights", memo |-> synthesize_memo(led)]

\* mutant: the notification is sent before the insight is appended
EmittedEarly(led, led2, sendok) == IF sendok THEN <<Notification(led)>> ELSE <<>>

\* send_resource_updated, called with the ledger led2 left by the append;
\* sendok says whether the session delivers it or raises
Emitted(led, led2, sendok) == IF sendok THEN <<Notification(led2)>> ELSE <<>>

\* the append_insight branch, led2 being the ledger after the append
AppendedInsight(d, led, led2, sendok) ==
    ToolResult(NoOutcome(d),
               IF sendok THEN Response("text", "Insight added to memo")
               ELSE ExceptClauses("append_insight", Exc("Exception", "", FALSE, ""),
                                  Diagnose("Unclassified")),
               led2, Emitted(led, led2, sendok))

\* the vacuum_database branch: VACUUM on a connection of its own
Vacuumed(d, led) ==
    ToolResult(Outcome(d, "ok", NoResult, NoExc, <<"VACUUM">>, NoParams,
                       <<"connect", "execute", "commit", "close">>),
               Response("text", "Database vacuum completed successfully"), led, <<>>)

\* handle_call_tool(name, arguments) for append_insight, vacuum_database,
\* the query tools and an unknown name, on file d and ledger led
handle_call_tool(d, name, arguments, c, led, sendok) ==
    IF name = "append_insight"
    THEN IF ~arguments.given \/ ~arguments.has_insight THEN Refused(d, name, led)
         ELSE AppendedInsight(d, led, LedgerAppend(led, arguments.insight), sendok)
    ELSE IF name = "vacuum_database" THEN Vacuumed(d, led)
    ELSE IF ~arguments.given THEN Refused(d, name, led)
    ELSE IF name \notin QueryTools THEN Refused(d, name, led)
    ELSE IF Rejects(name, arguments.query) THEN Refused(d, name, led)
    ELSE Answered(execute_query(d, arguments.query, NoParams, c, Calm), name, led)

\* handle_read_resource(uri) for memo://insights
handle_read_resource(led) == synthesize_memo(led)

\* -------------------------------------------------------------- inputs

TStatements ==
    { <<"SELECT", "*", "FROM", "t">>,
      <<" ", "select", "*", "from", "t", " ">>,
      <<"SELECT", "*", "FROM", "memory_journal">>,
      <<"SELECT", "*">>,
      <<"INSERT", "INTO", "t", "VALUES", "(1,'a')">>,
      <<"INSERT", "INTO", "t", "VALUES", "(1,'b')">>,
      <<" ", "insert", "into", "t", "values", "(2,'b')">>,
      <<"INSERT", "OR", "FAIL", "INTO", "t", "VALUES", "(2,'b')", "(1,'b')">>,
      <<"INSERT", "INTO", "t">>,
      <<"REPLACE", "INTO", "t", "VALUES", "(1,'b')">>,
      <<"UPDATE", "t", "SET", "name", "=", "'b'">>,
      <<"DELETE", "FROM", "t">>,
      <<"CREATE", "TABLE", "t">>,
      <<"CREATE", "TABLE", "memory_journal">>,
      <<"DROP", "TABLE", "t">>,
      <<"DROP", "TABLE", "memory_journal">> }

MjStatements ==
    {MjInsertHead \o e \o <<")">> : e \in Exprs}
    \cup {MjUpdateHead \o e \o MjUpdateTail : e \in Exprs}

\* the statements of the runs on memory_journal: the six above, and the
\* ones that create, drop and read the table
MetaStatements ==
    MjStatements \cup { <<"CREATE", "TABLE", "memory_journal">>,
                        <<"DROP", "TABLE", "memory_journal">>,
                        <<"SELECT", "*", "FROM", "memory_journal">> }

\* metadata values: a JSON text (not minified), a text that is no JSON
\* and the empty text
ValidMeta == TextVal(<<"{", " ", "}">>)
InvalidMeta == TextVal(<<"{">>)
EmptyMeta == TextVal(<<>>)

MjParams ==
    { NoParams,
      ListParams(<<ValidMeta>>),
      ListParams(<<InvalidMeta>>),
      ListParams(<<MetadataWord>>),
      DictParams({"metadata"}, ValidMeta),
      DictParams({"metadata"}, InvalidMeta),
      DictParams({"metadata"}, EmptyMeta),
      DictParams({"id"}, NullVal) }

ParamsFor(q) == IF q \in MjStatements THEN MjParams ELSE {NoParams}

\* memory_journal is kept to MaxJournal rows
JournalFull(d, q) ==
    /\ Form(Strip(q)) = "mj_insert"
    /\ Cardinality(d.tab["memory_journal"].rows) >= MaxJournal

\* -------------------------------------------------------------- startup

\* _init_database: the validation trigger is created when memory_journal
\* is there and binary JSON is supported and enabled
init_database(d, c) ==
    Database(d.tab, d.trig \/ (d.tab["memory_journal"].exists /\ c.enabled /\ c.has))

\* memory_journal as the migration sees it: the declared type of metadata
\* ("both" while the old and the new column exist, "dropped" when the old
\* one is dropped and the new one not yet renamed) and the rows
Journal(column, rows) == [col |-> column, rows |-> rows]

\* what update_memory_journal_schema did: the table it left, the success
\* it reports, whether it raised instead of returning, and the step that
\* failed
MigrationResult(j, success, raised, step) ==
    [journal |-> j, success |-> success, raised |-> raised, step |-> step]

\* the copy step: every value through the codec
Copied(v) == IF v.k = "null" THEN NullVal ELSE convert_to_jsonb(v).val
CopyRows(rows) == {Row(r.id, r.name, Copied(r.meta)) : r \in rows}
CopyFails(rows) == \E r \in rows : r.meta.k # "null" /\ Copied(r.meta).k = "null"

\* the table after all four steps
Converted(j) == Journal("BLOB", CopyRows(j.rows))

\* the table after four steps whose copy left the last row out
Lossy(j) == Journal("BLOB", CopyRows({r \in j.rows : r.id # MaxId(j.rows)}))

\* the table as it is when the step named fails, before the rollback
PartialAt(j, step) ==
    CASE step = "add" -> j
      [] step = "copy" -> Journal("both", j.rows)
      [] step = "drop" -> Journal("both", j.rows)
      [] OTHER -> Journal("dropped", CopyRows(j.rows))

\* mutant: the steps are committed one by one
RolledBackNever(j, partial) == partial

\* the rollback of the one transaction the steps run in
RolledBack(j, partial) == j

\* mutant: the row count is not compared
RowCountUnchecked(before, after) == TRUE

\* the assertion on the row count
RowCountAsserted(before, after) == Cardinality(after.rows) = Cardinality(before.rows)

MigrationFailed(j, step, raises) ==
    MigrationResult(RolledBack(j, PartialAt(j, step)), FALSE, raises, step)

MigrationCommit(j, after, raises) ==
    IF RowCountAsserted(j, after) THEN MigrationResult(after, TRUE, FALSE, "none")
    ELSE MigrationResult(RolledBack(j, after), FALSE, raises, "count")

\* SchemaUpdater.update_memory_journal_schema(): MigrateColumn on
\* memory_journal.metadata.  fault is what the environment does to it: a
\* step that fails, or "lose", a copy that leaves a row out; raises says
\* whether a failure is raised or returned as success False.
MigrateColumn(j, fault, raises) ==
    IF fault \in {"none", "lose"}
    THEN IF CopyFails(j.rows) THEN MigrationFailed(j, "copy", raises)
         ELSE MigrationCommit(j, IF fault = "lose" THEN Lossy(j) ELSE Converted(j), raises)
    ELSE MigrationFailed(j, fault, raises)

Faults == {"none", "lose", "add", "copy", "drop", "rename"}

\* the column migration state: Unknown, Checked or MigrationAttempted;
\* whether the column was found of the binary type; the success of the
\* migration; whether an exception was caught, and at which step; the
\* type the column had in the file found
MigState(phase, optimal, success, error, step, was) ==
    [phase |-> phase, optimal |-> optimal, success |-> success, error |-> error,
     step |-> step, was |-> was]

Unknown(was) == MigState("Unknown", "na", "na", FALSE, "none", was)
Checked(optimal, was) == MigState("Checked", optimal, "na", FALSE, "none", was)

\* what _check_metadata_column did: the file, the column type and the state
Booted(d, column, st) == [db |-> d, col |-> column, mstate |-> st]

WithJournal(d, rows) ==
    Database([d.tab EXCEPT !["memory_journal"] = Table(TRUE, rows)], d.trig)

\* the branch that calls update_memory_journal_schema, m being what it did
Attempted(d, column, m) ==
    Booted(WithJournal(d, m.journal.rows), m.journal.col,
           MigState("MigrationAttempted", "no", IF m.success THEN "yes" ELSE "no",
                    m.raised, m.step, column))

\* mutant: the migration is started whatever the support for JSONB
CheckMigratesUnsupported(d, column, c, checkfault, fault, raises) ==
    IF checkfault
        THEN Booted(d, column, MigState("Unknown", "na", "na", TRUE, "check", column))
    ELSE IF ~d.tab["memory_journal"].exists THEN Booted(d, column, Checked("na", column))
    ELSE IF column = "absent" THEN Booted(d, column, Checked("na", column))
    ELSE IF column = "BLOB" THEN Booted(d, column, Checked("yes", column))
    ELSE Attempted(d, column,
                   MigrateColumn(Journal(column, d.tab["memory_journal"].rows),
                                 fault, raises))

\* _check_metadata_column() on file d whose metadata column is declared
\* column; checkfault says whether a statement of the check itself raises
check_metadata_column(d, column, c, checkfault, fault, raises) ==
    IF checkfault
        THEN Booted(d, column, MigState("Unknown", "na", "na", TRUE, "check", column))
    ELSE IF ~d.tab["memory_journal"].exists THEN Booted(d, column, Checked("na", column))
    ELSE IF column = "absent" THEN Booted(d, column, Checked("na", column))
    ELSE IF column = "BLOB" THEN Booted(d, column, Checked("yes", column))
    ELSE IF c.has /\ c.enabled
        THEN Attempted(d, column,
                       MigrateColumn(Journal(column, d.tab["memory_journal"].rows),
                                     fault, raises))
    ELSE Booted(d, column, Checked("no", column))

\* mutant: the exception of the check leaves __init__
CheckExceptReraises(error) == IF error THEN "aborted" ELSE "ready"

\* except Exception as e: logger.error(...) at the end of
\* _check_metadata_column; __init__ returns after it
CheckExcept(error) == "ready"

\* EnhancedSqliteDatabase(db_path): _init_database, then
\* _check_metadata_column
construct(d, column, c, checkfault, fault, raises) ==
    check_metadata_column(init_database(d, c), column, c, checkfault, fault, raises)

\* a process that was constructed on a file whose metadata column, if
\* there is one, has the binary type
BootDone ==
    /\ pc = "ready"
    /\ col = IF db.tab["memory_journal"].exists THEN "BLOB" ELSE "absent"
    /\ mstate = Checked(IF db.tab["memory_journal"].exists THEN "yes" ELSE "na", col)

\* mutant: the handlers answer before main() has constructed the database
ServingAlways(p) == TRUE

\* main(): db = EnhancedSqliteDatabase(db_path) returns before the server
\* object is made, the handlers are registered and server.run is awaited,
\* so a handler or an executor runs only for a process at p = "ready"
Serving(p) == p = "ready"

\* ------------------------------------------------------ calls in flight

\* Several callers, each inside one call of an executor.  A call is taken
\* in three steps, the places where another caller's call can come in
\* between: the connection is opened (for a write through
\* safe_execute_query with BEGIN TRANSACTION, which is deferred and takes
\* no lock); the statement is executed; the call commits or rolls back,
\* closes the connection and returns or raises.

Callers == 1..MaxCallers

NoFile == Database([n \in TableNames |-> NoTable], FALSE)
NoExec == ExecRes(Connect(NoFile), "none", <<>>, -1)

\* a caller: where it is in its call, the executor and the statement, what
\* cursor.execute did on its connection, and how its last call ended
Flight(at, x, q, r, status, err) ==
    [pc |-> at, exec |-> x, q |-> q, r |-> r, status |-> status, err |-> err]
NotCalling == Flight("idle", "", <<>>, NoExec, "none", "none")

FlightIdle == fl = [i \in Callers |-> NotCalling]

\* after statement q did r its connection holds the write lock of the
\* file: the statement got as far as writing, inside a transaction that
\* is still open
LockTaken(r, q) ==
    /\ r.conn.intx
    /\ r.err # "locked"
    /\ NeedsWriteLock(Form(Strip(q)), r.err)

HoldsWriteLock(f) == f.pc = "executed" /\ LockTaken(f.r, f.q)

\* what is kept of r until the call ends: all of it for a connection that
\* holds the write lock; for any other, which has nothing to write, the
\* error only
InFlight(r, q) ==
    IF LockTaken(r, q) THEN r ELSE ExecRes(Connect(NoFile), r.err, <<>>, -1)

\* mutant: the engine lets every connection write
BusyNever(f, i) == FALSE

\* for caller i the file is busy: the connection of another caller holds
\* the write lock
Busy(f, i) == \E j \in Callers \ {i} : HoldsWriteLock(f[j])

\* cursor.execute of executor x on a new connection to file d
FlightSent(d, x, q, c, busy) ==
    IF x = "safe_execute_query"
    THEN EngineExecuteIn(SafeBegin(d, is_read_query(q), c.has), q, NoParams, c.has,
                         Env(busy, FALSE))
    ELSE EngineExecuteIn(Connect(d), StatementSent(q, NoParams, c), NoParams, c.has,
                         Env(busy, FALSE))

\* what executor x does after cursor.execute did r
FlightOutcome(x, r, q, c) ==
    IF x = "safe_execute_query"
    THEN SafeFinish(is_read_query(q), r, q, NoParams, Calm)
    ELSE ExecuteFinish(r, StatementSent(q, NoParams, c), NoParams, c)

\* the file after the call of f ended: a connection that holds the write
\* lock leaves what its commit, rollback or close left; any other wrote
\* nothing
FlightFile(d, f, c) ==
    IF HoldsWriteLock(f) THEN FlightOutcome(f.exec, f.r, f.q, c).db ELSE d

\* the file after a call of executor x with statement q that nothing
\* runs beside
Serial(d, x, q, c) ==
    IF x = "safe_execute_query"
    THEN safe_execute_query(d, q, NoParams, c.has, Calm).db
    ELSE execute_query(d, q, NoParams, c, Calm).db

\* ---------------------------------------------------------------- state

Configs == [enabled : BOOLEAN, has : BOOLEAN]

\* the file at startup: no table t, memory_journal absent or empty;
\* _init_database creates the validation trigger when memory_journal is
\* there and binary JSON is supported and enabled
InitialDatabase(c, mj) ==
    Database([n \in TableNames |-> IF n = "memory_journal" /\ mj THEN Table(TRUE, {})
                                   ELSE NoTable],
             mj /\ c.enabled /\ c.has)

\* an operation and what it did; for a tool call also its arguments, the
\* ledger it left and the notifications it delivered
Call(op, tool, q, params, out, resp) ==
    [op |-> op, tool |-> tool, q |-> q, params |-> params, out |-> out, resp |-> resp,
     args |-> NoArgs, ledger |-> <<>>, emitted |-> <<>>, env |-> Calm]
NoResponse == Response("none", "")
Called(name, a, r) ==
    [Call("call_tool", name, a.query, NoParams, r.out, r.resp)
        EXCEPT !.args = a, !.ledger = r.ledger, !.emitted = r.emitted]
NoCall(d) == Call("init", "", <<>>, NoParams, NoOutcome(d), NoResponse)

LedgerIdle ==
    /\ insights = <<>>
    /\ notified = <<>>
    /\ memo = <<>>

CodecIdle ==
    /\ cj = NullVal
    /\ cenc = NoCodec
    /\ cdec = NoCodec
    /\ cpc = "idle"

NoDiagnosis == [category |-> "", is_json_related |-> FALSE, suggestions |-> <<>>]
ClassIdle ==
    /\ cerr = {}
    /\ cdiag = NoDiagnosis

Init ==
    /\ cfg \in Configs
    /\ \E mj \in BOOLEAN : db = InitialDatabase(cfg, mj)
    /\ pre = db
    /\ last = NoCall(db)
    /\ CodecIdle
    /\ ClassIdle
    /\ LedgerIdle
    /\ FlightIdle
    /\ BootDone

\* a caller runs safe_execute_query on the file, with a statement of S
SafeExecuteQuery(S, E) ==
    \E q \in S : \E p \in ParamsFor(q) : \E env \in E :
        /\ Serving(pc)
        /\ ~JournalFull(db, q)
        /\ last' = [Call("safe_execute_query", "", q, p,
                         safe_execute_query(db, q, p, cfg.has, env), NoResponse)
                        EXCEPT !.env = env]
        /\ db' = last'.out.db
        /\ pre' = db
        /\ UNCHANGED <<cfg, codecVars, classVars, ledgerVars, bootVars, fl>>

\* a caller runs db._execute_query with a statement of S
ExecuteQuery(S, E) ==
    \E q \in S : \E p \in ParamsFor(q) : \E env \in E :
        /\ Serving(pc)
        /\ ~JournalFull(db, q)
        /\ last' = [Call("_execute_query", "", q, p, execute_query(db, q, p, cfg, env),
                         NoResponse)
                        EXCEPT !.env = env]
        /\ db' = last'.out.db
        /\ pre' = db
        /\ UNCHANGED <<cfg, codecVars, classVars, ledgerVars, bootVars, fl>>

\* a client calls one of the query tools, vacuum_database or a tool the
\* server has not
CallTool(S) ==
    \E name \in QueryTools \cup {"vacuum_database", "no_such_tool"} :
    \E a \in {NoArgs} \cup {Args(q) : q \in S} :
        /\ Serving(pc)
        /\ ~JournalFull(db, a.query)
        /\ last' = Called(name, a, handle_call_tool(db, name, a, cfg, insights, TRUE))
        /\ db' = last'.out.db
        /\ pre' = db
        /\ insights' = last'.ledger
        /\ notified' = notified \o last'.emitted
        /\ UNCHANGED <<cfg, codecVars, classVars, memo, bootVars, fl>>

\* the executors and the query tools on the statements about table t
Next ==
    \/ SafeExecuteQuery(TStatements, {Calm})
    \/ ExecuteQuery(TStatements, {Calm})
    \/ CallTool(TStatements)

Spec == Init /\ [][Next]_vars

\* the executors on the statements about memory_journal.metadata, with
\* every kind of parameter collection
NextMeta ==
    \/ SafeExecuteQuery(MetaStatements, {Calm})
    \/ ExecuteQuery(MetaStatements, {Calm})

SpecMeta == Init /\ [][NextMeta]_vars

\* ------------------------------------------------- read specification

\* values found in the columns of a memory_journal written by any client
\* of the file: NULL, a JSON text, a binary JSON value and bytes that are
\* no binary JSON
ValidBlob == BlobVal(ParseTree(ValidMeta.s).node)
RawBytes == BlobVal(NullNode)
NameValues == {NullVal, ValidBlob}
MetaValues == {NullVal, ValidMeta, ValidBlob, RawBytes}

\* the tables of up to n rows with ids 1..n
RECURSIVE JournalsUpTo(_)
JournalsUpTo(n) ==
    IF n = 0 THEN {{}}
    ELSE LET shorter == JournalsUpTo(n - 1)
         IN  shorter \cup
             { rows \cup {Row(n, nv, mv)} :
                 rows \in {r \in shorter : Cardinality(r) = n - 1},
                 nv \in NameValues, mv \in MetaValues }

SelectJournal == <<"SELECT", "*", "FROM", "memory_journal">>

\* a file whose memory_journal holds rows already
InitRead ==
    /\ cfg \in Configs
    /\ \E rows \in JournalsUpTo(MaxReadRows) :
        db = Database([n \in TableNames |-> IF n = "memory_journal" THEN Table(TRUE, rows)
                                            ELSE NoTable],
                      cfg.enabled /\ cfg.has)
    /\ pre = db
    /\ last = NoCall(db)
    /\ CodecIdle
    /\ ClassIdle
    /\ LedgerIdle
    /\ FlightIdle
    /\ BootDone

NextRead ==
    \/ SafeExecuteQuery({SelectJournal}, {Calm})
    \/ ExecuteQuery({SelectJournal}, {Calm})

SpecRead == InitRead /\ [][NextRead]_vars

\* ------------------------------------------------- codec specification

\* The codec on an engine that has jsonb() and json(), the only engine
\* server.py uses it on: a text is handed to convert_to_jsonb and what it
\* returns to convert_from_jsonb.
InitCodec ==
    /\ cfg = [enabled |-> TRUE, has |-> TRUE]
    /\ db = InitialDatabase(cfg, FALSE)
    /\ pre = db
    /\ last = NoCall(db)
    /\ cj \in {TextVal(s) : s \in JsonTexts}
    /\ cenc = NoCodec
    /\ cdec = NoCodec
    /\ cpc = "input"
    /\ ClassIdle
    /\ LedgerIdle
    /\ FlightIdle
    /\ BootDone

Encode ==
    /\ cpc = "input"
    /\ cenc' = convert_to_jsonb(cj)
    /\ cpc' = "encoded"
    /\ UNCHANGED <<db, cfg, pre, last, cj, cdec, classVars, ledgerVars, bootVars, fl>>

Decode ==
    /\ cpc = "encoded"
    /\ cdec' = convert_from_jsonb(cenc.val)
    /\ cpc' = "decoded"
    /\ UNCHANGED <<db, cfg, pre, last, cj, cenc, classVars, ledgerVars, bootVars, fl>>

NextCodec == Encode \/ Decode

SpecCodec == InitCodec /\ [][NextCodec]_vars

\* ------------------------------------------------ ledger specification

InsightTexts == {"Revenue grew 12% in Q2", "Churn dropped"}

\* a client calls append_insight: without arguments, with arguments that
\* have no insight, or with an insight; the session delivers the
\* notification or raises
AppendInsight ==
    \E a \in {NoArgs, Args(<<"SELECT", "*", "FROM", "t">>)}
              \cup {InsightArgs(x) : x \in InsightTexts} :
    \E sendok \in BOOLEAN :
        /\ Serving(pc)
        /\ Len(insights) < MaxInsights
        /\ last' = Called("append_insight", a,
                          handle_call_tool(db, "append_insight", a, cfg, insights, sendok))
        /\ db' = last'.out.db
        /\ pre' = db
        /\ insights' = last'.ledger
        /\ notified' = notified \o last'.emitted
        /\ UNCHANGED <<cfg, codecVars, classVars, memo, bootVars, fl>>

\* a client reads memo://insights
ReadResource ==
    /\ Serving(pc)
    /\ memo' = handle_read_resource(insights)
    /\ last' = Call("read_resource", "", <<>>, NoParams, NoOutcome(db), NoResponse)
    /\ pre' = db
    /\ UNCHANGED <<db, cfg, codecVars, classVars, insights, notified, bootVars, fl>>

LedgerStatements ==
    { <<"CREATE", "TABLE", "t">>, <<"SELECT", "*", "FROM", "t">> }

InitLedger ==
    /\ cfg = [enabled |-> TRUE, has |-> TRUE]
    /\ db = InitialDatabase(cfg, FALSE)
    /\ pre = db
    /\ last = NoCall(db)
    /\ CodecIdle
    /\ ClassIdle
    /\ LedgerIdle
    /\ FlightIdle
    /\ BootDone

NextLedger ==
    \/ AppendInsight
    \/ ReadResource
    \/ ExecuteQuery(LedgerStatements, {Calm})
    \/ CallTool(LedgerStatements)

SpecLedger == InitLedger /\ [][NextLedger]_vars

\* ----------------------------------------------- startup specification

\* metadata values of the rows a file holds at startup
StartValues(column) ==
    IF column = "BLOB" THEN {NullVal, ValidBlob} ELSE {NullVal, ValidMeta, InvalidMeta}

\* the tables of up to n rows with ids 1..n and metadata values of V
RECURSIVE StartJournals(_, _)
StartJournals(n, V) ==
    IF n = 0 THEN {{}}
    ELSE StartJournals(n - 1, V) \cup
         { rows \cup {Row(n, "", mv)} :
             rows \in {r \in StartJournals(n - 1, V) : Cardinality(r) = n - 1}, mv \in V }

StartFile(rows, trig) ==
    Database([n \in TableNames |-> IF n = "memory_journal" THEN Table(TRUE, rows) ELSE NoTable],
             trig)

\* the file before the process starts: memory_journal absent, or there
\* with rows, its metadata column absent, TEXT or BLOB
InitStartup ==
    /\ cfg \in Configs
    /\ pc = "file"
    /\ \/ /\ col = "absent"
          /\ db \in {InitialDatabase(cfg, FALSE), StartFile({}, FALSE)}
       \/ /\ col \in {"TEXT", "BLOB"}
          /\ \E rows \in StartJournals(MaxStartRows, StartValues(col)) :
                db = StartFile(rows, FALSE)
    /\ mstate = Unknown(col)
    /\ pre = db
    /\ last = NoCall(db)
    /\ CodecIdle
    /\ ClassIdle
    /\ LedgerIdle
    /\ FlightIdle

\* main() constructs EnhancedSqliteDatabase
Construct ==
    \E checkfault \in BOOLEAN : \E fault \in Faults : \E raises \in BOOLEAN :
        /\ pc = "file"
        /\ mstate' = construct(db, col, cfg, checkfault, fault, raises).mstate
        /\ col' = construct(db, col, cfg, checkfault, fault, raises).col
        /\ db' = construct(db, col, cfg, checkfault, fault, raises).db
        /\ pc' = CheckExcept(mstate'.error)
        /\ last' = Call("__init__", "", <<>>, NoParams, NoOutcome(db'), NoResponse)
        /\ pre' = db
        /\ UNCHANGED <<cfg, codecVars, classVars, ledgerVars, fl>>

StartStatements == {SelectJournal, MjInsertHead \o <<"?">> \o <<")">>}

NextStartup ==
    \/ Construct
    \/ ExecuteQuery(StartStatements, {Calm})
    \/ SafeExecuteQuery(StartStatements, {Calm})
    \/ CallTool(StartStatements)

SpecStartup == InitStartup /\ [][NextStartup]_vars

\* ------------------------------------------------ commit specification

\* statements on table t with and without a commit prefix
CommitStatements ==
    { <<"SELECT", "*", "FROM", "t">>,
      <<"INSERT", "INTO", "t", "VALUES", "(1,'a')">>,
      <<"REPLACE", "INTO", "t", "VALUES", "(1,'b')">>,
      <<" ", "replace", "into", "t", "values", "(2,'b')">>,
      WithInsert,
      <<"DELETE", "FROM", "t">>,
      <<"CREATE", "TABLE", "t">>,
      <<"DROP", "TABLE", "t">> }

NextCommit ==
    \/ SafeExecuteQuery(CommitStatements, {Calm})
    \/ ExecuteQuery(CommitStatements, {Calm})
    \/ CallTool(CommitStatements)

SpecCommit == Init /\ [][NextCommit]_vars

\* ------------------------------------------- transaction specification

TxStatements ==
    { <<"SELECT", "*", "FROM", "t">>,
      <<"SELECT", "*">>,
      <<"INSERT", "INTO", "t", "VALUES", "(1,'a')">>,
      <<"INSERT", "INTO", "t", "VALUES", "(1,'b')">>,
      <<"REPLACE", "INTO", "t", "VALUES", "(1,'b')">>,
      <<"DELETE", "FROM", "t">>,
      <<"CREATE", "TABLE", "t">>,
      <<"DROP", "TABLE", "t">>,
      MjUpdateHead \o <<"?">> \o MjUpdateTail }

\* the executors in every surroundings: the file busy or not, the
\* rollback failing or not
NextTx ==
    \/ SafeExecuteQuery(TxStatements, Envs)
    \/ ExecuteQuery(TxStatements, Envs)

SpecTx == Init /\ [][NextTx]_vars

\* ------------------------------------------- concurrency specification

FlightStatements ==
    { <<"SELECT", "*", "FROM", "t">>,
      <<"INSERT", "INTO", "t", "VALUES", "(1,'a')">>,
      <<"INSERT", "INTO", "t", "VALUES", "(2,'b')">>,
      <<"REPLACE", "INTO", "t", "VALUES", "(1,'b')">>,
      <<"DELETE", "FROM", "t">> }

\* a process that serves, its file holding table t, empty (the statements
\* on t do not depend on the configuration)
InitFlight ==
    /\ cfg = [enabled |-> TRUE, has |-> TRUE]
    /\ db = Database([n \in TableNames |-> IF n = "t" THEN Table(TRUE, {}) ELSE NoTable],
                     FALSE)
    /\ pre = db
    /\ last = NoCall(db)
    /\ CodecIdle
    /\ ClassIdle
    /\ LedgerIdle
    /\ FlightIdle
    /\ pc = "ready"
    /\ col = "absent"
    /\ mstate = Checked("na", col)

\* caller i enters an executor, which opens its connection
FlightConnect(i) ==
    \E x \in {"safe_execute_query", "_execute_query"} : \E q \in FlightStatements :
        /\ Serving(pc)
        /\ fl[i].pc = "idle"
        /\ fl' = [fl EXCEPT ![i] = Flight("connected", x, q, NoExec, "none", "none")]
        /\ UNCHANGED <<db, cfg, pre, last, codecVars, classVars, ledgerVars, bootVars>>

\* the call of caller i executes its statement
FlightExecute(i) ==
    /\ fl[i].pc = "connected"
    /\ fl' = [fl EXCEPT ![i].pc = "executed",
                        ![i].r = InFlight(FlightSent(db, fl[i].exec, fl[i].q, cfg,
                                                     Busy(fl, i)),
                                          fl[i].q)]
    /\ db' = FlightSent(db, fl[i].exec, fl[i].q, cfg, Busy(fl, i)).conn.disk
    /\ UNCHANGED <<cfg, pre, last, codecVars, classVars, ledgerVars, bootVars>>

\* the call of caller i commits or rolls back, closes and returns or raises
FlightFinish(i) ==
    /\ fl[i].pc = "executed"
    /\ fl' = [fl EXCEPT ![i] =
                Flight("idle", "", <<>>, NoExec,
                       FlightOutcome(fl[i].exec, fl[i].r, fl[i].q, cfg).status,
                       fl[i].r.err)]
    /\ db' = FlightFile(db, fl[i], cfg)
    /\ UNCHANGED <<cfg, pre, last, codecVars, classVars, ledgerVars, bootVars>>

NextFlight ==
    \E i \in Callers :
        \/ FlightConnect(i)
        \/ FlightExecute(i)
        \/ FlightFinish(i)

SpecFlight == InitFlight /\ [][NextFlight]_vars

\* -------------------------------------------- classifier specification

\* an error is handed to the classifier, its message and statement
\* matching any set of the rules
InitClassify ==
    /\ cfg = [enabled |-> TRUE, has |-> TRUE]
    /\ db = InitialDatabase(cfg, FALSE)
    /\ pre = db
    /\ last = NoCall(db)
    /\ CodecIdle
    /\ cerr \in SUBSET Rules
    /\ cdiag = NoDiagnosis
    /\ LedgerIdle
    /\ FlightIdle
    /\ BootDone

ClassifyError ==
    /\ cdiag = NoDiagnosis
    /\ cdiag' = Diagnose(Classify(cerr))
    /\ UNCHANGED <<db, cfg, pre, last, codecVars, cerr, ledgerVars, bootVars, fl>>

NextClassify == ClassifyError

SpecClassify == InitClassify /\ [][NextClassify]_vars

\* --------------------------------------------------------------- claims

\* the statement classes of the specification: a prefix test on the
\* trimmed, upper-cased text
ReadClass(q) == StartsWithAny(q, {"SELECT"})
WriteClass(q) == StartsWithAny(q, {"INSERT", "UPDATE", "DELETE"})
SchemaChangeClass(q) == StartsWithAny(q, {"CREATE", "DROP", "ALTER"})

\* the last operation was a call of one of the two executors
IsExecute == last.op \in {"safe_execute_query", "_execute_query"}

\* what the engine did with the statement of the last executor call
EngineOfLast == EngineExecute(Connect(pre), last.out.sentq, last.out.sentp, cfg.has)

\* C1: when a Write statement (INSERT, UPDATE, DELETE) raises an engine
\* error, the tables after the call are the tables before it.
C1_RollbackInvariant ==
    (IsExecute /\ WriteClass(last.q) /\ last.out.status = "raise") => db = pre

\* C1 witness: with the row (1, a) stored, safe_execute_query of an insert
\* of id 1 failed on the primary key and the table holds that one row.
C1_Witness ==
    /\ last.op = "safe_execute_query"
    /\ last.q = <<"INSERT", "INTO", "t", "VALUES", "(1,'b')">>
    /\ last.out.status = "raise"
    /\ last.out.exc.orig = "constraint"
    /\ pre.tab["t"].rows = {Row(1, "a", NullVal)}
    /\ db.tab["t"].rows = {Row(1, "a", NullVal)}

\* C2: a Write or SchemaChange statement that runs without an engine error
\* is committed before the call returns, the call returns the single
\* mapping with the affected-row count (1 for a one-row insert), and the
\* file, which every later call connects to, holds the change.
C2_CommitOnSuccess ==
    (IsExecute /\ (WriteClass(last.q) \/ SchemaChangeClass(last.q))
        /\ last.out.status = "ok")
    => /\ last.out.result = Affected(EngineOfLast.rowcount)
       /\ Form(Strip(last.q)) = "insert" => last.out.result.n = 1
       /\ \E i \in 1..Len(last.out.events) :
            /\ last.out.events[i] = "commit"
            /\ i < Len(last.out.events)
            /\ \E j \in 1..(i - 1) : last.out.events[j] = "execute"
       /\ db = EngineOfLast.conn.work

\* C2 witness: _execute_query inserted the row (1, a) into the empty
\* table, returned the count 1, and the file holds the row.
C2_Witness ==
    /\ last.op = "_execute_query"
    /\ last.q = <<"INSERT", "INTO", "t", "VALUES", "(1,'a')">>
    /\ last.out.status = "ok"
    /\ last.out.result = Affected(1)
    /\ pre.tab["t"] = Table(TRUE, {})
    /\ db.tab["t"].rows = {Row(1, "a", NullVal)}

\* C3: a Read statement (text beginning with SELECT) leaves the rows of
\* every table as they were, whether it returns or raises.
C3_ReadLeavesState ==
    (IsExecute /\ ReadClass(last.q))
    => /\ \A tb \in TableNames :
            Cardinality(db.tab[tb].rows) = Cardinality(pre.tab[tb].rows)
       /\ db = pre

\* C3 witness: a SELECT (lower case, with blanks around it) returned the
\* two rows of the table, which still holds them.
C3_Witness ==
    /\ IsExecute
    /\ last.q = <<" ", "select", "*", "from", "t", " ">>
    /\ last.out.status = "ok"
    /\ last.out.result.n = 2
    /\ Cardinality(db.tab["t"].rows) = 2

\* C4 as stated: after an engine error _execute_query raises, and for
\* every error category the error raised is one built by the executor
\* that carries the diagnosis.
C4_EveryErrorCarriesDiagnosis ==
    (last.op = "_execute_query" /\ EngineOfLast.err # "none")
    => /\ last.out.status = "raise"
       /\ last.out.exc.enriched

\* C4 as amended: after an engine error _execute_query never returns a
\* result, it raises an exception of the class of the engine's; when the
\* diagnosis is JSON related the exception is a new one whose message
\* holds the first suggestion of the diagnosis, and otherwise it is the
\* engine's own error, re-raised as it is, without the diagnosis.
C4_ErrorsReachCaller ==
    (last.op = "_execute_query" /\ EngineOfLast.err # "none")
    => /\ last.out.status = "raise"
       /\ last.out.result = NoResult
       /\ last.out.exc.etype = ExcType(EngineOfLast.err)
       /\ IF Category(EngineOfLast.err) \in JsonCategories
          THEN /\ last.out.exc.enriched
               /\ last.out.exc.suggestion = Suggestions(Category(EngineOfLast.err))[1]
          ELSE last.out.exc = OriginalError(EngineOfLast.err)

\* C4 witness: an UPDATE through jsonb(?) with a bound text that is no
\* JSON failed in the engine and the caller got the enriched exception.
C4_Witness ==
    /\ last.op = "_execute_query"
    /\ last.q = MjUpdateHead \o <<"jsonb(", "?", ")">> \o MjUpdateTail
    /\ last.params = ListParams(<<InvalidMeta>>)
    /\ EngineOfLast.err = "malformed_json"
    /\ last.out.status = "raise"
    /\ last.out.exc.enriched

\* a tool call that reached the prefix test of a query tool
IsQueryToolCall ==
    last.op = "call_tool" /\ last.tool \in QueryTools /\ last.q # <<>>

\* the call was refused before anything was done on the engine
RefusedEarly ==
    /\ last.resp.kind = "raised"
    /\ last.out.events = <<>>
    /\ db = pre

\* C5 as stated: read refuses what is not Read-class, write refuses what
\* is not Write-class, createSchema refuses what is not a CREATE TABLE, and
\* a refused call opens no connection and changes nothing.
C5_WrongPathRefused ==
    IsQueryToolCall
    => /\ (last.tool = "read_query" /\ ~ReadClass(last.q)) => RefusedEarly
       /\ (last.tool = "write_query" /\ ~WriteClass(last.q)) => RefusedEarly
       /\ (last.tool = "create_table"
             /\ ~StartsWith(Upper(Strip(last.q)), <<"CREATE", "TABLE">>)) => RefusedEarly

\* C5 as amended: read refuses what is not Read-class, write refuses the
\* Read-class statements and lets every other statement through to the
\* engine, createSchema refuses what is not a CREATE TABLE, and a refused
\* call opens no connection and changes nothing.
C5_MisuseRefused ==
    IsQueryToolCall
    => /\ (last.tool = "read_query" /\ ~ReadClass(last.q)) => RefusedEarly
       /\ (last.tool = "write_query" /\ ReadClass(last.q)) => RefusedEarly
       /\ (last.tool = "write_query" /\ ~ReadClass(last.q))
            => (last.out.events # <<>> /\ Head(last.out.events) = "connect")
       /\ (last.tool = "create_table"
             /\ ~StartsWith(Upper(Strip(last.q)), <<"CREATE", "TABLE">>)) => RefusedEarly

\* C5 witness: write_query was given a SELECT over a table holding a row
\* and refused it without a connection.
C5_Witness ==
    /\ last.op = "call_tool"
    /\ last.tool = "write_query"
    /\ last.q = <<"SELECT", "*", "FROM", "t">>
    /\ db.tab["t"].rows # {}
    /\ RefusedEarly

\* two parameter collections of the same shape: both none, lists of the
\* same length, or dicts with the same keys
SameShape(p1, p2) ==
    /\ p1.kind = p2.kind
    /\ Len(p1.items) = Len(p2.items)
    /\ p1.keys = p2.keys

\* the tokens of the JSON texts given as parameter values
ValueTokens == {"{", "}", "[", "]", " ", "'{ }'"}

ValidInput == JsonLoads(cj.s).ok

\* C7: for every JSON text Encode returns a binary value, and Decode of
\* that value returns a JSON text whose parsed value is the parsed value
\* of the text that was encoded.
C7_RoundTrip ==
    /\ (cpc \in {"encoded", "decoded"} /\ ValidInput)
        => (cenc.val.k = "blob" /\ ~cenc.raised)
    /\ (cpc = "decoded" /\ ValidInput)
        => /\ cdec.val.k = "text"
           /\ ~cdec.raised
           /\ JsonLoads(cdec.val.s).ok
           /\ JsonLoads(cdec.val.s).val = JsonLoads(cj.s).val

\* C7 witness: a text with whitespace around its tokens was encoded and
\* decoded, and the text that came back is the minified one.
C7_Witness ==
    /\ cpc = "decoded"
    /\ cj.s = <<" ", "[", " ", "1", " ", ",", "sa", "]", " ">>
    /\ cenc.val.k = "blob"
    /\ cdec.val = TextVal(<<"[", "1", ",", "sa", "]">>)

MetadataCall ==
    /\ last.op = "_execute_query"
    /\ cfg.enabled /\ cfg.has
    /\ last.q \in {MjInsertHead \o <<"?", ")">>, MjUpdateHead \o <<"?">> \o MjUpdateTail}
    /\ last.params.kind = "dict"
    /\ "metadata" \in last.params.keys

\* C9: when the metadata parameter is a JSON text, the statement sent
\* to the engine, INSERT or UPDATE, has the placeholder of the column
\* inside jsonb( ).
C9_MetadataRoutedThroughCodec ==
    (MetadataCall /\ validate_json(last.params.meta))
    => Contains(last.out.sentq, <<"jsonb(", "?", ")">>)

\* C10: when the metadata parameter is present and is no JSON text, the
\* statement is sent as the caller wrote it, with the caller's parameters.
C10_InvalidMetadataUntouched ==
    (MetadataCall /\ last.params.meta.k = "text" /\ ~validate_json(last.params.meta))
    => /\ last.out.sentq = last.q
       /\ last.out.sentp = last.params

\* the rows of memory_journal the last read found, in rowid order
JournalRead == ById(pre.tab["memory_journal"].rows)

\* bytes the engine's json() decodes: a binary JSON value, on an engine
\* that has binary JSON
Decodable(v) == v.k = "blob" /\ v.b.t # "null" /\ cfg.has

\* the last call read memory_journal
ReadJournal == IsExecute /\ last.q = SelectJournal

\* C11 as stated: a read returns every row, with every decodable binary
\* value of the column metadata replaced by its parsed JSON value, the
\* other binary values of that column left raw and the other columns
\* as they are.
C11_ReadDecodesMetadata ==
    ReadJournal
    => /\ last.out.status = "ok"
       /\ last.out.result.n = Len(JournalRead)
       /\ \A i \in 1..Len(JournalRead) :
            /\ last.out.result.rows[i].id = JournalRead[i].id
            /\ last.out.result.rows[i].name = JournalRead[i].name
            /\ last.out.result.rows[i].meta =
                 IF Decodable(JournalRead[i].meta)
                 THEN JsonVal(Normalise(JournalRead[i].meta.b))
                 ELSE JournalRead[i].meta

\* C11 as amended: a read returns every row with the other columns as
\* they are; _execute_query, when binary JSON is supported and enabled,
\* replaces every decodable binary value of the column metadata by its
\* parsed JSON value and leaves the other binary values of that column
\* raw; with binary JSON disabled, and in safe_execute_query, every value
\* of metadata is returned raw.
C11_ReadDecodesWhenEnabled ==
    ReadJournal
    => /\ last.out.status = "ok"
       /\ last.out.result.n = Len(JournalRead)
       /\ \A i \in 1..Len(JournalRead) :
            /\ last.out.result.rows[i].id = JournalRead[i].id
            /\ last.out.result.rows[i].name = JournalRead[i].name
            /\ last.out.result.rows[i].meta =
                 IF /\ last.op = "_execute_query"
                    /\ cfg.enabled
                    /\ Decodable(JournalRead[i].meta)
                 THEN JsonVal(Normalise(JournalRead[i].meta.b))
                 ELSE JournalRead[i].meta

\* C11 witness: _execute_query read two rows, one whose metadata it
\* decoded and whose name is a binary value it left, one whose metadata
\* are bytes it could not decode.
C11_Witness ==
    /\ last.op = "_execute_query"
    /\ last.q = SelectJournal
    /\ JournalRead = <<Row(1, ValidBlob, ValidBlob), Row(2, NullVal, RawBytes)>>
    /\ last.out.status = "ok"
    /\ last.out.result.rows =
         <<Row(1, ValidBlob, JsonVal(Normalise(ValidBlob.b))), Row(2, NullVal, RawBytes)>>

\* the position of a rule in the order
RulePos(r) == CHOOSE i \in 1..Len(RuleOrder) : RuleOrder[i] = r

\* the classifier has returned
Classified == cdiag # NoDiagnosis

\* C12: the category is one of the closed set; it is a rule that matches
\* and no rule before it in the order matches; an error that matches no
\* rule is Unclassified; a duplicate primary key is ConstraintViolation.
C12_FirstMatchWins ==
    /\ Classified
        => /\ cdiag.category \in Categories
           /\ (cerr = {}) <=> (cdiag.category = "Unclassified")
           /\ cerr # {}
                => /\ cdiag.category \in cerr
                   /\ \A r \in cerr : RulePos(cdiag.category) <= RulePos(r)
    /\ Category("constraint") = "ConstraintViolation"

\* C12 witness: an error that matches the syntax rule and the constraint
\* rule was classified as a constraint violation.
C12_Witness ==
    /\ Classified
    /\ cerr = {"SyntaxError", "ConstraintViolation"}
    /\ cdiag.category = "ConstraintViolation"

\* C13: a diagnosis is flagged JSON related exactly when its category is
\* InvalidJson, JsonPathInvalid or JsonTypeMismatch, and a diagnosis of
\* JsonTypeMismatch is flagged and has a suggestion.
C13_JsonFlag ==
    Classified
    => /\ cdiag.is_json_related
            <=> cdiag.category \in {"InvalidJson", "JsonPathInvalid", "JsonTypeMismatch"}
       /\ cdiag.category = "JsonTypeMismatch"
            => (cdiag.is_json_related /\ Len(cdiag.suggestions) >= 1)

\* C13 witness: an error matching the type mismatch rule and later rules
\* got a diagnosis that is flagged and has a suggestion.
C13_Witness ==
    /\ Classified
    /\ cerr = {"JsonTypeMismatch", "Locked"}
    /\ cdiag.category = "JsonTypeMismatch"
    /\ cdiag.is_json_related
    /\ cdiag.suggestions # <<>>

\* C14: when a tool call fails in the engine, the caller is returned a
\* database error message, and the message holds a suggestion exactly
\* when the diagnosis of the failure is JSON related.
C14_SuggestionIffJsonRelated ==
    (last.op = "call_tool" /\ last.out.status = "raise")
    => /\ last.resp.kind = "db_error"
       /\ (last.resp.text = "Database error with suggestion") <=> last.out.exc.enriched

\* the step is a call of append_insight that reached the append
AppendStep ==
    /\ last'.op = "call_tool"
    /\ last'.tool = "append_insight"
    /\ last'.args.given
    /\ last'.args.has_insight

\* C15: every Append adds its text at the end of the ledger and leaves
\* the earlier entries as they were, a text already in the ledger
\* included, and no other operation (a read of the memo, an executor
\* call, another tool, an append_insight without an insight) changes the
\* ledger.
C15_LedgerAppendOnly ==
    [][IF AppendStep
       THEN insights' = Append(insights, last'.args.insight)
       ELSE insights' = insights]_vars

\* C15 witness: three appends, the third of the text of the first, left a
\* ledger holding that text twice, around the other text.
C15_Witness ==
    /\ last.op = "call_tool"
    /\ last.tool = "append_insight"
    /\ insights = <<"Churn dropped", "Revenue grew 12% in Q2", "Churn dropped">>
    /\ last.args.insight = "Churn dropped"

\* C16: the memo a read returns is determined by the ledger: the
\* placeholder for the empty ledger; otherwise the header, one bullet per
\* insight in the order of the ledger, and then the summary with the
\* number of insights exactly when there is more than one.
C16_RenderOfLedger ==
    last.op = "read_resource"
    => IF insights = <<>>
       THEN memo = <<Line("placeholder", "No business insights have been discovered yet.", 0)>>
       ELSE /\ Len(memo) = 2 + Len(insights) + (IF Len(insights) > 1 THEN 2 ELSE 0)
            /\ memo[1].kind = "header"
            /\ memo[2].kind = "header"
            /\ \A i \in 1..Len(insights) : memo[2 + i] = Line("bullet", insights[i], 0)
            /\ Len(insights) > 1
                => /\ memo[Len(memo) - 1].kind = "summary"
                   /\ memo[Len(memo)] = Line("summary", "key business insights", Len(insights))

\* C16 witness: the memo read after the two appends of the scenario has
\* both bullets in order and a summary of 2 insights.
C16_Witness ==
    /\ last.op = "read_resource"
    /\ insights = <<"Revenue grew 12% in Q2", "Churn dropped">>
    /\ memo[3].text = "Revenue grew 12% in Q2"
    /\ memo[4].text = "Churn dropped"
    /\ memo[6].n = 2

\* the step is a call of append_insight that returned the success text
AppendSucceeded ==
    /\ AppendStep
    /\ last'.resp = Response("text", "Insight added to memo")

\* C17: an append_insight that succeeds delivers exactly one notification
\* for memo://insights, and the memo a read returns when it is delivered
\* is the memo of the ledger with the new insight at its end; every other
\* step delivers none.
C17_OneNotificationAfterAppend ==
    [][IF AppendSucceeded
       THEN /\ Len(notified') = Len(notified) + 1
            /\ SubSeq(notified', 1, Len(notified)) = notified
            /\ notified'[Len(notified')].uri = "memo://insights"
            /\ notified'[Len(notified')].memo = synthesize_memo(insights')
            /\ insights'[Len(insights')] = last'.args.insight
       ELSE notified' = notified]_vars

\* C17 witness: after three appends, one of which failed to notify, two
\* notifications were delivered and the last shows the whole ledger.
C17_Witness ==
    /\ last.op = "call_tool"
    /\ last.tool = "append_insight"
    /\ last.resp.text = "Insight added to memo"
    /\ Len(insights) = 3
    /\ Len(notified) = 2
    /\ notified[2].memo = synthesize_memo(insights)

\* __init__ has returned from a check that called the migration
MigrationReturned ==
    /\ last.op = "__init__"
    /\ mstate.phase = "MigrationAttempted"

JournalOf(d) == d.tab["memory_journal"]

\* C18: after the migration returned, either it reports success, the
\* column has the binary type and every row holds its value as encoded by
\* the engine, or it reports failure and the column type and the rows are
\* what they were before; the table is never left with both columns or
\* without the renamed one.
C18_MigrationAtomic ==
    MigrationReturned
    => \/ /\ mstate.success = "yes"
          /\ col = "BLOB"
          /\ JournalOf(db).rows =
                { Row(r.id, r.name, IF r.meta.k = "null" THEN NullVal ELSE SqlJsonb(r.meta).val) :
                    r \in JournalOf(pre).rows }
       \/ /\ mstate.success = "no"
          /\ col = mstate.was
          /\ JournalOf(db) = JournalOf(pre)

\* C18 witness: a migration of a table of two rows failed when dropping
\* the old column and left the TEXT column and both rows as they were.
C18_Witness ==
    /\ MigrationReturned
    /\ mstate.step = "drop"
    /\ mstate.success = "no"
    /\ col = "TEXT"
    /\ Cardinality(JournalOf(db).rows) = 2
    /\ JournalOf(db) = JournalOf(pre)

\* C19: when the check of a TEXT column, with binary JSON supported and
\* enabled, ends in a successful migration, the column has the binary type
\* and the table has as many rows as before.
C19_MigrationKeepsRows ==
    (MigrationReturned /\ mstate.was = "TEXT" /\ mstate.success = "yes")
    => /\ cfg.has /\ cfg.enabled
       /\ col = "BLOB"
       /\ Cardinality(JournalOf(db).rows) = Cardinality(JournalOf(pre).rows)

\* C19 witness: a table of two rows, one with a JSON text and one with
\* NULL, was migrated: two rows, the text now a binary value.
C19_Witness ==
    /\ MigrationReturned
    /\ mstate.success = "yes"
    /\ JournalOf(pre).rows = {Row(1, "", ValidMeta), Row(2, "", NullVal)}
    /\ JournalOf(db).rows = {Row(1, "", ValidBlob), Row(2, "", NullVal)}
    /\ col = "BLOB"

\* the check or the migration failed
StartupFailed == mstate.error \/ mstate.success = "no"

\* C20: __init__ always returns with the executor constructed; a failed
\* check or migration leaves the file's table and column as they were; a
\* missing table is no failure of its own and starts no migration; and
\* after a failure a read of memory_journal through the executor returns
\* the rows of the unmigrated table.
C20_StartupNeverAborts ==
    /\ pc \in {"file", "ready"}
    /\ last.op = "__init__"
        => /\ pc = "ready"
           /\ StartupFailed => (JournalOf(db) = JournalOf(pre) /\ col = mstate.was)
           /\ ~JournalOf(pre).exists
                => /\ mstate.phase # "MigrationAttempted"
                   /\ mstate.error => mstate.step = "check"
                   /\ ~JournalOf(db).exists
    /\ (StartupFailed /\ last.op = "_execute_query" /\ last.q = SelectJournal
            /\ JournalOf(db).exists)
        => /\ last.out.status = "ok"
           /\ last.out.result.n = Cardinality(JournalOf(db).rows)

\* C20 witness: the migration raised while copying, the process is ready
\* and a later read returned the two rows of the TEXT table.
C20_Witness ==
    /\ pc = "ready"
    /\ mstate.phase = "MigrationAttempted"
    /\ mstate.error
    /\ mstate.step = "copy"
    /\ col = "TEXT"
    /\ last.op = "_execute_query"
    /\ last.q = SelectJournal
    /\ last.out.status = "ok"
    /\ last.out.result.n = 2

\* C21: every tool invocation ends with a response returned to the
\* caller, a result or an error message, and never with an exception
\* leaving handle_call_tool.
C21_EveryCallAnswered ==
    last.op = "call_tool"
    => last.resp.kind \in {"results", "text", "db_error", "error"}

\* the last step was an append_insight whose notification was not
\* delivered
NotifyFailed ==
    /\ last.op = "call_tool"
    /\ last.tool = "append_insight"
    /\ last.args.has_insight
    /\ last.emitted = <<>>

\* C30: when sending the notification fails, the insight is in the
\* ledger all the same and the caller is returned an error message in
\* place of the success text.
C30_NotifyFailureAnswered ==
    NotifyFailed
    => /\ insights # <<>>
       /\ insights[Len(insights)] = last.args.insight
       /\ last.resp.kind = "error"

\* how often the call e appears in the calls ev
Count(ev, e) == Cardinality({i \in 1..Len(ev) : ev[i] = e})

\* the call ev[i] = a comes before a call ev[j] = b
Before(ev, a, b) ==
    \E i \in 1..Len(ev) : \E j \in (i + 1)..Len(ev) : ev[i] = a /\ ev[j] = b

\* the last executor call ran a Write statement, which would have
\* succeeded, while the file was busy
BusyWrite ==
    /\ IsExecute
    /\ WriteClass(last.q)
    /\ last.env.busy
    /\ EngineOfLast.err = "none"

\* C22: an executor call hands its statement to the engine once, and a
\* Write that finds the file locked fails with the engine's error, whose
\* category is Locked, with nothing written.
C22_SubmittedOnce ==
    /\ IsExecute => Count(last.out.events, "execute") = 1
    /\ BusyWrite
        => /\ last.out.status = "raise"
           /\ last.out.exc.orig = "locked"
           /\ Category(last.out.exc.orig) = "Locked"
           /\ db = pre

\* C22 witness: _execute_query of an insert into the empty table t found
\* the file locked and raised; the table is still empty.
C22_Witness ==
    /\ last.op = "_execute_query"
    /\ last.q = <<"INSERT", "INTO", "t", "VALUES", "(1,'a')">>
    /\ last.env.busy
    /\ pre.tab["t"] = Table(TRUE, {})
    /\ last.out.status = "raise"
    /\ last.out.exc.orig = "locked"
    /\ Count(last.out.events, "execute") = 1
    /\ db.tab["t"] = Table(TRUE, {})

\* the last executor call ran a Write or SchemaChange statement
TxCall == IsExecute /\ (WriteClass(last.q) \/ SchemaChangeClass(last.q))

FailedWrite == IsExecute /\ WriteClass(last.q) /\ last.out.status = "raise"

\* C24 as stated: after a failure the transaction is rolled back, then
\* the error is classified, then a new error with the diagnosis is raised.
C24_RollbackClassifyRaise ==
    FailedWrite
    => /\ Before(last.out.events, "rollback", "classify")
       /\ last.out.exc.enriched

\* C24 as amended: safe_execute_query rolls back and re-raises the
\* statement's error, unclassified, also when the rollback itself fails;
\* _execute_query classifies first, calls no rollback and raises, the open
\* transaction ending with the close; in both the connection is closed
\* before the caller has the error, and the file is as before the call.
C24_FailureOrderPerExecutor ==
    FailedWrite
    => /\ last.out.events[Len(last.out.events)] = "close"
       /\ db = pre
       /\ last.op = "safe_execute_query"
            => /\ last.out.events = <<"connect", "begin", "execute", "rollback", "close">>
               /\ last.out.exc = OriginalError(last.out.exc.orig)
               /\ last.out.exc.orig \in {"constraint", "locked", "syntax", "no_such_table",
                                         "binding", "malformed_json", "no_such_function"}
       /\ last.op = "_execute_query"
            => /\ last.out.events = <<"connect", "execute", "classify", "close">>
               /\ last.out.exc.enriched
                    <=> (\E e \in {"malformed_json", "json_path", "json_type"} :
                            last.out.exc = RaisedExc(e, analyze_sqlite_error(e)))

\* C24 witness: safe_execute_query of an insert of a key already there
\* failed, the rollback raised too, and the caller got the constraint
\* error with the row of before in the table.
C24_Witness ==
    /\ last.op = "safe_execute_query"
    /\ last.q = <<"INSERT", "INTO", "t", "VALUES", "(1,'b')">>
    /\ last.env.rbfails
    /\ last.out.status = "raise"
    /\ last.out.exc = OriginalError("constraint")
    /\ db.tab["t"].rows = {Row(1, "a", NullVal)}

\* C25: every executor call opens one connection, first of all, and
\* closes it, last of all, whether it returns or raises.
C25_ConnectionClosed ==
    IsExecute
    => /\ Count(last.out.events, "connect") = 1
       /\ Count(last.out.events, "close") = 1
       /\ last.out.events[1] = "connect"
       /\ last.out.events[Len(last.out.events)] = "close"

\* C25 witness: _execute_query with a list of parameters holding the word
\* metadata, for which the special handling raises and logs TypeError,
\* went on to the engine, failed there and closed its connection.
C25_Witness ==
    /\ last.op = "_execute_query"
    /\ TargetsMetadata(last.q, cfg)
    /\ last.params = ListParams(<<MetadataWord>>)
    /\ last.out.status = "raise"
    /\ last.out.events = <<"connect", "execute", "classify", "close">>

\* a step that changes the column migration state
MigrationStep == mstate' # mstate

\* C26: the column migration state changes only in the construction of the
\* process, from Unknown to Checked or MigrationAttempted and never back; a
\* migration is attempted only on a file that has the table and the column,
\* the column not of the BLOB type, with JSONB supported and enabled; and
\* no step of an executor or a tool changes the state or the column type.
C26_MigrationStateForward ==
    [][/\ MigrationStep
            => /\ pc = "file"
               /\ pc' = "ready"
               /\ last'.op = "__init__"
               /\ mstate.phase = "Unknown"
               /\ mstate'.phase \in {"Unknown", "Checked", "MigrationAttempted"}
               /\ mstate'.phase = "MigrationAttempted"
                    => /\ JournalOf(db).exists
                       /\ col \notin {"absent", "BLOB"}
                       /\ cfg.has /\ cfg.enabled
       /\ pc = "ready" => (pc' = "ready" /\ mstate' = mstate /\ col' = col)
       /\ last'.op # "__init__" => (mstate' = mstate /\ col' = col)]_vars

\* C26 witness: the migration was attempted and converted the column, and a
\* read_query call that read the table afterwards was answered with its
\* rows and left the state as it was.
C26_Witness ==
    /\ mstate.phase = "MigrationAttempted"
    /\ mstate.success = "yes"
    /\ col = "BLOB"
    /\ last.op = "call_tool"
    /\ last.tool = "read_query"
    /\ last.q = SelectJournal
    /\ last.resp.kind = "results"
    /\ JournalOf(db).rows # {}

\* C27: every call of an executor or a tool is served by a process whose
\* construction, the check of the column and the migration with it, has
\* returned: at the call the process is ready, and the call finds and
\* leaves the column migration state final.
C27_CheckBeforeFirstExecute ==
    [][(last' # last /\ last'.op \in {"_execute_query", "safe_execute_query", "call_tool"})
            => /\ pc = "ready"
               /\ last.op # "init"
               /\ mstate' = mstate
               /\ col' = col]_vars

\* C27 witness: the first call after a construction that migrated the
\* column is an insert into memory_journal through _execute_query.
C27_Witness ==
    /\ mstate.phase = "MigrationAttempted"
    /\ mstate.success = "yes"
    /\ last.op = "_execute_query"
    /\ last.out.status = "ok"
    /\ Cardinality(JournalOf(db).rows) = Cardinality(JournalOf(pre).rows) + 1

\* the last call was _execute_query and returned, its statement changing
\* rows of t under a first keyword that is no commit prefix
UncommittedForm(f) ==
    /\ last.op = "_execute_query"
    /\ last.out.status = "ok"
    /\ Form(Strip(last.q)) = f
    /\ ~IsCommitted(last.q)

\* C28 as stated: a row-changing statement whose first keyword is no
\* commit prefix leaves nothing that a later call can see.
C28_UncommittedInvisible ==
    (UncommittedForm("replace") \/ UncommittedForm("with_insert")) => db = pre

\* C28: _execute_query commits exactly after the six prefixes; a REPLACE
\* or a WITH ... INSERT gets no commit and returns the (empty) row list,
\* not a count; the REPLACE ran in the implicit transaction of the sqlite3
\* module and is lost when the connection is closed; the WITH ... INSERT
\* ran with no transaction open, was committed by the engine at once, and
\* its row is in the file for every later call; safe_execute_query
\* commits both.
C28_CommitByPrefix ==
    /\ (last.op = "_execute_query" /\ last.out.status = "ok")
        => /\ Count(last.out.events, "commit") = (IF IsCommitted(last.q) THEN 1 ELSE 0)
           /\ IsCommitted(last.q) <=> StartsWithAny(last.q, CommitPrefixes)
           /\ IsCommitted(last.q) <=> last.out.result.kind = "affected"
    /\ UncommittedForm("replace")
        => (db = pre /\ last.out.result = RowsResult(<<>>))
    /\ UncommittedForm("with_insert")
        => /\ last.out.result = RowsResult(<<>>)
           /\ db.tab["t"].rows = pre.tab["t"].rows \cup {RowLit("(2,'b')")}
           /\ db # pre
    /\ (last.op = "safe_execute_query" /\ last.out.status = "ok"
            /\ Form(Strip(last.q)) \in {"replace", "with_insert"})
        => db = EngineOfLast.conn.work

\* C28 witness: _execute_query returned from the WITH ... INSERT with an
\* empty row list and the row (2,'b') is in the file, beside a row that
\* was there before.
C28_Witness ==
    /\ UncommittedForm("with_insert")
    /\ RowLit("(2,'b')") \in db.tab["t"].rows
    /\ RowLit("(2,'b')") \notin pre.tab["t"].rows
    /\ pre.tab["t"].rows # {}

\* caller i leaves its call in this step
Finishing(i) == fl[i].pc = "executed" /\ fl'[i].pc = "idle"

\* C29: with several callers inside executor calls, each on its own
\* connection, at most one connection holds the write lock; a call that
\* returns leaves the file that the same call, run alone on the file as
\* it was when the call ended, would have left, and a call that raises,
\* with "database is locked" or any other error, leaves the file as it
\* was; the file changes in no other step.  So the file is at every
\* moment the one reached by the calls that returned, one after another
\* in the order they ended.
C29_ConcurrentCallsSerial ==
    [][/\ \A i \in Callers :
            Finishing(i)
                => IF fl'[i].status = "ok"
                   THEN db' = Serial(db, fl[i].exec, fl[i].q, cfg)
                   ELSE db' = db
       /\ db' # db => \E i \in Callers : Finishing(i) /\ fl'[i].status = "ok"
       /\ Cardinality({i \in Callers : HoldsWriteLock(fl[i])}) <= 1]_vars

\* C29 witness: caller 1 found the file locked by the insert of caller 2
\* and raised; caller 2 committed; the file holds the row of caller 2
\* beside the row committed before both.
C29_Witness ==
    /\ fl[1].pc = "idle"
    /\ fl[1].status = "raise"
    /\ fl[1].err = "locked"
    /\ fl[2].pc = "idle"
    /\ fl[2].status = "ok"
    /\ db.tab["t"].rows = {RowLit("(1,'a')"), RowLit("(2,'b')")}

====
